---- MODULE Spec2Model ----
(***************************************************************************)
(* Refresh orchestration engine of continuum-intelligence-v3               *)
(* (src/api/refresh.py, src/api/main.py).                                  *)
(*                                                                         *)
(* Threads.  The request handlers of main.py are coroutines of the         *)
(* server's event loop: a handler runs atomically between its awaits.      *)
(* Every accepted refresh is a background task that runs in a worker       *)
(* thread with an event loop of its own (_run_refresh_background,          *)
(* _run_batch_background), so a pipeline is interleaved with the handlers  *)
(* and with the other pipelines at every write to the shared state.  The   *)
(* tasks of one batch share that batch's loop: a task runs until it        *)
(* awaits something that is not ready (the gather permit, the data         *)
(* gatherer); the completion calls of stages 2-3 are synchronous calls.    *)
(*                                                                         *)
(* Tickers are numbers; the order of a ticker list is the numeric order    *)
(* (main.py sorts the list).  Timestamps are abstracted to "set / unset".  *)
(* Batch ids are taken to be distinct (requests in different seconds).     *)
(***************************************************************************)
EXTENDS Integers, Sequences, FiniteSets, TLC

NTickers == 4
MaxBatches == 3
MaxSingles == 2

Tickers == 1..NTickers
Batches == 1..MaxBatches
Singles == 1..MaxSingles

\* asyncio.Semaphore(3) and asyncio.Semaphore(2)
GatherPermits == 3
BatchPermits == 2

VARIABLES
    load,          \* the workload: what the clients request, what may raise
    docs,          \* tickers that have a research file in the Document Store
    refresh_jobs,  \* ticker -> reference to the RefreshJob in the job tracker
    sResp,         \* per trigger_refresh call: its ticker and response
    sPc,           \* per single refresh: position of run_refresh
    sJob,          \* per single refresh: the RefreshJob run_refresh owns
    hPc,           \* per trigger_refresh_all call: position / response
    batch_jobs,    \* batch id -> BatchRefreshJob (or NoBatch)
    bPc,           \* per batch: position of run_batch_refresh
    tPc,           \* per batch and ticker: position of _run_single_in_batch
    tJob,          \* per batch and ticker: the RefreshJob the task owns
    fault,         \* per batch and ticker: the exception the task met, if any
    tRun,          \* per batch and ticker: the payloads of stages 2 and 3
    sFault,        \* per single refresh: the exception run_refresh met, if any
    sRun,          \* per single refresh: the payloads of stages 2 and 3
    saved,         \* the pipeline executions that have written their document
    ready,         \* per batch: the ready queue of the batch's event loop
    stalled,       \* per batch: wake-ups set from another thread, unnoticed
    cur,           \* per batch: the coroutine the batch's loop is running
    gather_sem,    \* _gather_semaphore
    batch_sem,     \* _batch_semaphore
    disk,          \* stage 4 in detail: the research file of the entity
    heap,          \* stage 4 in detail: the dict objects in memory
    research,      \* stage 4 in detail: the document _load_research returned
    inputs,        \* stage 4 in detail: gathered data and update payloads
    updated,       \* stage 4 in detail: what _merge_updates returned
    mPc,           \* stage 4 in detail: position of the pipeline in stage 4
    served,        \* stage 4 in detail: what the readers of the file got
    index,         \* stage 4 in detail: the summary index file _index.json
    call           \* the completion client in detail: one gemini_completion call

\* what stages 2-4 of the pipelines have produced
runs == <<tRun, sFault, sRun, saved>>

\* stage 4 of one pipeline execution in detail, with the readers of its file
stage4 == <<disk, heap, research, inputs, updated, mPc, served, index>>

\* the orchestration: jobs, batches, tasks, pools
orchestration ==
    <<load, docs, refresh_jobs, sResp, sPc, sJob, hPc, batch_jobs, bPc, tPc,
      tJob, fault, runs, ready, stalled, cur, gather_sem, batch_sem>>

vars == <<orchestration, stage4, call>>

-----------------------------------------------------------------------------
(* RefreshJob *)

\* RefreshJob(ticker=ticker): the dataclass defaults
NewJob ==
    [status |-> "gathering_data", stage_index |-> 0, completed_at |-> FALSE,
     error |-> "none", result |-> FALSE]

Min(a, b) == IF a < b THEN a ELSE b

progress_pct(job) ==
    IF job.status = "completed" THEN 100
    ELSE IF job.status = "failed" THEN 0
    ELSE Min(job.stage_index * 25, 100)

\* RefreshJob.to_dict: the snapshot stored in per_ticker_status
to_dict(job) ==
    [status |-> job.status, stage_index |-> job.stage_index,
     progress_pct |-> progress_pct(job), completed_at |-> job.completed_at,
     error |-> job.error]

\* the "queued" entry run_batch_refresh and trigger_refresh_all write
QueuedEntry ==
    [status |-> "queued", stage_index |-> 0, progress_pct |-> 0,
     completed_at |-> FALSE, error |-> "none"]

NoJob == <<"none", 0, 0>>
PreRef(s) == <<"pre", s, 0>>
SingleRef(s) == <<"single", s, 0>>
BatchRef(b, t) == <<"batch", b, t>>

\* the RefreshJob object a reference of the job tracker points to
JobOf(ref) ==
    IF ref[1] = "single" THEN sJob[ref[2]]
    ELSE IF ref[1] = "batch" THEN tJob[ref[2]][ref[3]]
    ELSE NewJob

get_job(t) == refresh_jobs[t]

is_running(t) ==
    /\ get_job(t) # NoJob
    /\ JobOf(get_job(t)).status \notin {"completed", "failed"}

-----------------------------------------------------------------------------
(* BatchRefreshJob *)

NoBatch == [tickers |-> {}, status |-> "none", latest |-> FALSE,
            completed_at |-> FALSE, per_ticker_status |-> <<>>, errors |-> <<>>]

\* started_at = time.time() orders the BatchRefreshJob objects by their
\* construction: the job made last is the latest one.  batch_jobs with the
\* new job of batch b put in it
batch_jobs_with(b, job) ==
    [c \in Batches |->
        IF c = b THEN [job EXCEPT !.latest = TRUE]
        ELSE [batch_jobs[c] EXCEPT !.latest = FALSE]]

\* get_latest_batch_job(): the batch id of the job with the greatest
\* started_at, 0 if there is none
get_latest_batch_job ==
    IF \A b \in Batches : ~batch_jobs[b].latest THEN 0
    ELSE CHOOSE b \in Batches : batch_jobs[b].latest

\* per_ticker_status and errors are dicts: functions on the keys present
Put(d, k, v) == [x \in (DOMAIN d) \cup {k} |-> IF x = k THEN v ELSE d[x]]

CountStatus(d, S) == Cardinality({k \in DOMAIN d : d[k].status \in S})

total_completed(bj) == CountStatus(bj.per_ticker_status, {"completed"})

total_failed(bj) == CountStatus(bj.per_ticker_status, {"failed"})

\* every value the status of a RefreshJob or of a per-ticker entry takes
Statuses ==
    {"queued", "gathering_data", "specialist_analysis", "hypothesis_synthesis",
     "writing_results", "completed", "failed"}

\* total_in_progress that does not leave the queued entries out
total_in_progress_queued(bj) ==
    CountStatus(bj.per_ticker_status, Statuses \ {"completed", "failed"})

total_in_progress(bj) ==
    CountStatus(bj.per_ticker_status, Statuses \ {"completed", "failed", "queued"})

total_queued(bj) ==
    Cardinality(bj.tickers) - total_completed(bj) - total_failed(bj)
        - total_in_progress(bj)

\* the per_ticker_status list of a to_dict that has no default for a ticker
\* without entry
entry_of_nodefault(bj, t) ==
    IF t \in DOMAIN bj.per_ticker_status THEN bj.per_ticker_status[t]
    ELSE [status |-> "missing", stage_index |-> 0, progress_pct |-> 0,
          completed_at |-> FALSE, error |-> "none"]

\* the per_ticker_status list of BatchRefreshJob.to_dict
entry_of(bj, t) ==
    IF t \in DOMAIN bj.per_ticker_status THEN bj.per_ticker_status[t]
    ELSE QueuedEntry

is_batch_running ==
    \E b \in Batches : batch_jobs[b].status \in {"queued", "in_progress"}

-----------------------------------------------------------------------------
(* Stages 2-4: the completion calls and what the stages make of them        *)

\* what a completion call can come to: a JSON object, another JSON value
\* (a list, a string, null, ...), text that is no JSON, or an exception
CallOutcomes == {"object", "other_json", "bad_json", "raises"}

\* gemini_completion(json_mode=True): the parsed value, or an exception
\* (invalid JSON ends in ValueError once the attempts are used up)
gemini_completion(o) ==
    IF o \in {"bad_json", "raises"}
    THEN [raised |-> TRUE, value |-> "none"]
    ELSE [raised |-> FALSE, value |-> o]

\* client.messages.create(...) and json.loads(text) in stage 3
claude_completion(o) ==
    IF o \in {"bad_json", "raises"}
    THEN [raised |-> TRUE, value |-> "none"]
    ELSE [raised |-> FALSE, value |-> o]

\* evidence updates: no update yet, the object the model returned, the
\* empty dict, and the update of the except block
NoEvidence == [cards |-> "none", summary |-> "none"]
ModelEvidence == [cards |-> "some", summary |-> "model"]
EmptyEvidence == [cards |-> "absent", summary |-> "absent"]
FailedEvidence == [cards |-> "empty", summary |-> "Evidence update failed"]

\* _run_evidence_specialists without its try/except
run_evidence_specialists_noexcept(o) ==
    LET r == gemini_completion(o) IN
    IF r.raised THEN [raised |-> TRUE, update |-> NoEvidence]
    ELSE [raised |-> FALSE,
          update |-> IF r.value = "object" THEN ModelEvidence ELSE EmptyEvidence]

\* _run_evidence_specialists from the completion call on
run_evidence_specialists(o) ==
    LET r == gemini_completion(o) IN
    IF r.raised THEN [raised |-> FALSE, update |-> FailedEvidence]
    ELSE [raised |-> FALSE,
          update |-> IF r.value = "object" THEN ModelEvidence ELSE EmptyEvidence]

\* synthesis payloads: none yet, the object the model returned, a JSON
\* value that is no object, and the payload of the except block
NoSynthesis ==
    [is_dict |-> FALSE, hypotheses |-> "none", narrative_update |-> "none",
     verdict_update |-> "none"]
ModelSynthesis ==
    [is_dict |-> TRUE, hypotheses |-> "some", narrative_update |-> "model",
     verdict_update |-> "model"]
OtherSynthesis ==
    [is_dict |-> FALSE, hypotheses |-> "absent", narrative_update |-> "absent",
     verdict_update |-> "absent"]
DegradedSynthesis ==
    [is_dict |-> TRUE, hypotheses |-> "empty",
     narrative_update |-> "Synthesis unavailable", verdict_update |-> "null"]

\* json.loads(text): the value returned as it is
Parsed(value) == IF value = "object" THEN ModelSynthesis ELSE OtherSynthesis

\* _run_hypothesis_synthesis from the completion call on.  key: the
\* ANTHROPIC_API_KEY is configured; oc, og: what the call of Claude and of
\* Gemini comes to, if made.
run_hypothesis_synthesis(key, oc, og) ==
    IF ~key
    THEN LET r == gemini_completion(og) IN
         [called |-> {"gemini"}, primary |-> "unconfigured",
          update |-> IF r.raised THEN DegradedSynthesis ELSE Parsed(r.value)]
    ELSE LET r == claude_completion(oc) IN
         [called |-> {"claude"}, primary |-> oc,
          update |-> IF r.raised THEN DegradedSynthesis ELSE Parsed(r.value)]

\* _merge_updates returns: hypothesis_update.get(...) raises on a value that
\* is no dict
merge_accepts(evidence_update, hypothesis_update) == hypothesis_update.is_dict

\* the payloads of a pipeline execution before stages 2 and 3
NoRun ==
    [ev |-> [out |-> "none", update |-> NoEvidence],
     hyp |-> [called |-> {}, primary |-> "none", update |-> NoSynthesis]]

-----------------------------------------------------------------------------
(* asyncio.Semaphore: held = the permits taken (_value = permits - held),   *)
(* waiters = _waiters in order, loop = the event loop the semaphore is      *)
(* bound to by its first blocked acquire (0 = not bound yet).               *)

NewSem == [held |-> {}, waiters |-> <<>>, loop |-> 0]

locked(sem, permits) ==
    Cardinality(sem.held) = permits \/ sem.waiters # <<>>

\* index of the first waiter that is not woken yet, 0 if none
FirstUnwoken(ws) ==
    IF \E i \in 1..Len(ws) : ~ws[i].woken
    THEN CHOOSE i \in 1..Len(ws) :
             ~ws[i].woken /\ \A j \in 1..(i - 1) : ws[j].woken
    ELSE 0

RemoveAt(ws, i) == [j \in 1..(Len(ws) - 1) |-> IF j < i THEN ws[j] ELSE ws[j + 1]]

IndexOf(ws, b, t) == CHOOSE i \in 1..Len(ws) : ws[i].b = b /\ ws[i].t = t


\* _wake_up_next: the first waiter whose future is not done gets the permit
wake_up_next(sem) ==
    LET i == FirstUnwoken(sem.waiters) IN
    IF i = 0 THEN sem
    ELSE [sem EXCEPT !.waiters[i].woken = TRUE,
                     !.held = @ \cup {<<sem.waiters[i].b, sem.waiters[i].t>>}]

\* the waiter wake_up_next(sem) wakes, as a set (empty if none)
Woken(sem) ==
    LET i == FirstUnwoken(sem.waiters) IN
    IF i = 0 THEN {} ELSE {sem.waiters[i]}

\* Semaphore.release
release(sem, b, t) == wake_up_next([sem EXCEPT !.held = @ \ {<<b, t>>}])

\* the waiter release(sem, b, t) wakes, as a set
Released(sem, b, t) == Woken([sem EXCEPT !.held = @ \ {<<b, t>>}])

\* Semaphore.acquire after the await: leave _waiters, pass a free permit on
resume(sem, permits, b, t) ==
    LET left == [sem EXCEPT !.waiters = RemoveAt(@, IndexOf(@, b, t))] IN
    IF Cardinality(left.held) < permits THEN wake_up_next(left) ELSE left

Resumed(sem, permits, b, t) ==
    LET left == [sem EXCEPT !.waiters = RemoveAt(@, IndexOf(@, b, t))] IN
    IF Cardinality(left.held) < permits THEN Woken(left) ELSE {}

-----------------------------------------------------------------------------
(* The event loop of a batch.  cur[b] = 0: no task is running.              *)

LoopIdle(b) == cur[b] = 0 /\ ready[b] = <<>>

\* fut.set_result from the task <<b, ..>> for the waiters ws (at most one):
\* the callback is appended to the ready queue of the waiter's loop.  From
\* another thread this does not wake a loop that is waiting in select():
\* lost = TRUE is that outcome, possible only when the loop is idle.
Schedule(ws, b, lost) ==
    /\ ready' = [x \in Batches |->
          LET mine == {w \in ws : w.b = x} IN
          IF mine = {} THEN ready[x]
          ELSE LET w == CHOOSE w \in mine : TRUE IN
               IF x # b /\ LoopIdle(x) /\ (lost \/ stalled[x] # <<>>)
               THEN ready[x] ELSE Append(ready[x], w.t)]
    /\ stalled' = [x \in Batches |->
          LET mine == {w \in ws : w.b = x} IN
          IF mine = {} THEN stalled[x]
          ELSE LET w == CHOOSE w \in mine : TRUE IN
               IF x # b /\ LoopIdle(x) /\ (lost \/ stalled[x] # <<>>)
               THEN Append(stalled[x], w.t) ELSE stalled[x]]
    /\ (lost => \E w \in ws : w.b # b /\ LoopIdle(w.b) /\ stalled[w.b] = <<>>)

\* the loop takes the next ready callback
LoopPick(b) ==
    /\ cur[b] = 0
    /\ ready[b] # <<>>
    /\ cur' = [cur EXCEPT ![b] = Head(ready[b])]
    /\ ready' = [ready EXCEPT ![b] = Tail(@)]
    /\ UNCHANGED <<call, stage4, load, runs, docs, refresh_jobs, sResp, sPc, sJob, hPc, batch_jobs, bPc,
                   tPc, tJob, fault, stalled, gather_sem, batch_sem>>

-----------------------------------------------------------------------------
(* _run_single_in_batch(ticker, batch_job): the task of ticker t in batch b *)

Running(b, t) == cur[b] = t /\ t \in batch_jobs[b].tickers

Goto(b, t, pc) == tPc' = [tPc EXCEPT ![b][t] = pc]

\* JobWrite with an except block that also resets the stage index
JobWrite_reset(pc, job, err) ==
    CASE pc = "g_status" -> [job EXCEPT !.status = "gathering_data"]
      [] pc = "g_index"  -> [job EXCEPT !.stage_index = 1]
      [] pc = "s_status" -> [job EXCEPT !.status = "specialist_analysis"]
      [] pc = "s_index"  -> [job EXCEPT !.stage_index = 2]
      [] pc = "h_status" -> [job EXCEPT !.status = "hypothesis_synthesis"]
      [] pc = "h_index"  -> [job EXCEPT !.stage_index = 3]
      [] pc = "w_status" -> [job EXCEPT !.status = "writing_results"]
      [] pc = "w_index"  -> [job EXCEPT !.stage_index = 4]
      [] pc = "c_status" -> [job EXCEPT !.status = "completed"]
      [] pc = "c_index"  -> [job EXCEPT !.stage_index = 5]
      [] pc = "c_time"   -> [job EXCEPT !.completed_at = TRUE]
      [] pc = "c_result" -> [job EXCEPT !.result = TRUE]
      [] pc = "x_status" -> [job EXCEPT !.status = "failed", !.stage_index = 0]
      [] pc = "x_error"  -> [job EXCEPT !.error = err]
      [] pc = "x_time"   -> [job EXCEPT !.completed_at = TRUE]

\* JobWrite with an except block that does not set the status to failed
JobWrite_nofail(pc, job, err) ==
    CASE pc = "g_status" -> [job EXCEPT !.status = "gathering_data"]
      [] pc = "g_index"  -> [job EXCEPT !.stage_index = 1]
      [] pc = "s_status" -> [job EXCEPT !.status = "specialist_analysis"]
      [] pc = "s_index"  -> [job EXCEPT !.stage_index = 2]
      [] pc = "h_status" -> [job EXCEPT !.status = "hypothesis_synthesis"]
      [] pc = "h_index"  -> [job EXCEPT !.stage_index = 3]
      [] pc = "w_status" -> [job EXCEPT !.status = "writing_results"]
      [] pc = "w_index"  -> [job EXCEPT !.stage_index = 4]
      [] pc = "c_status" -> [job EXCEPT !.status = "completed"]
      [] pc = "c_index"  -> [job EXCEPT !.stage_index = 5]
      [] pc = "c_time"   -> [job EXCEPT !.completed_at = TRUE]
      [] pc = "c_result" -> [job EXCEPT !.result = TRUE]
      [] pc = "x_status" -> job
      [] pc = "x_error"  -> [job EXCEPT !.error = err]
      [] pc = "x_time"   -> [job EXCEPT !.completed_at = TRUE]

\* the statements that assign one field of the task's RefreshJob
JobWrite(pc, job, err) ==
    CASE pc = "g_status" -> [job EXCEPT !.status = "gathering_data"]
      [] pc = "g_index"  -> [job EXCEPT !.stage_index = 1]
      [] pc = "s_status" -> [job EXCEPT !.status = "specialist_analysis"]
      [] pc = "s_index"  -> [job EXCEPT !.stage_index = 2]
      [] pc = "h_status" -> [job EXCEPT !.status = "hypothesis_synthesis"]
      [] pc = "h_index"  -> [job EXCEPT !.stage_index = 3]
      [] pc = "w_status" -> [job EXCEPT !.status = "writing_results"]
      [] pc = "w_index"  -> [job EXCEPT !.stage_index = 4]
      [] pc = "c_status" -> [job EXCEPT !.status = "completed"]
      [] pc = "c_index"  -> [job EXCEPT !.stage_index = 5]
      [] pc = "c_time"   -> [job EXCEPT !.completed_at = TRUE]
      [] pc = "c_result" -> [job EXCEPT !.result = TRUE]
      [] pc = "x_status" -> [job EXCEPT !.status = "failed"]
      [] pc = "x_error"  -> [job EXCEPT !.error = err]
      [] pc = "x_time"   -> [job EXCEPT !.completed_at = TRUE]

WritePcs ==
    {"g_status", "g_index", "s_status", "s_index", "h_status", "h_index",
     "w_status", "w_index", "c_status", "c_index", "c_time", "c_result",
     "x_status", "x_error", "x_time"}

\* the statement that follows each statement of the task
TaskNext(pc) ==
    CASE pc = "create"   -> "snap0"
      [] pc = "snap0"    -> "load"
      [] pc = "g_status" -> "g_index"
      [] pc = "g_index"  -> "g_snap"
      [] pc = "g_snap"   -> "g_call"
      [] pc = "s_status" -> "s_index"
      [] pc = "s_index"  -> "s_snap"
      [] pc = "s_snap"   -> "s_call"
      [] pc = "h_status" -> "h_index"
      [] pc = "h_index"  -> "h_snap"
      [] pc = "h_snap"   -> "h_call"
      [] pc = "w_status" -> "w_index"
      [] pc = "w_index"  -> "w_snap"
      [] pc = "w_snap"   -> "w_write"
      [] pc = "c_status" -> "c_index"
      [] pc = "c_index"  -> "c_time"
      [] pc = "c_time"   -> "c_result"
      [] pc = "c_result" -> "c_snap"
      [] pc = "c_snap"   -> "done"
      [] pc = "x_status" -> "x_error"
      [] pc = "x_error"  -> "x_time"
      [] pc = "x_time"   -> "x_snap"
      [] pc = "x_snap"   -> "x_errors"
      [] pc = "x_errors" -> "done"

SnapPcs == {"snap0", "g_snap", "s_snap", "h_snap", "w_snap", "c_snap", "x_snap"}

\* job = RefreshJob(ticker=ticker); refresh_jobs[ticker] = job
TaskCreate(b, t) ==
    /\ Running(b, t)
    /\ tPc[b][t] = "create"
    /\ refresh_jobs' = [refresh_jobs EXCEPT ![t] = BatchRef(b, t)]
    /\ tJob' = [tJob EXCEPT ![b][t] = NewJob]
    /\ Goto(b, t, TaskNext("create"))
    /\ UNCHANGED <<call, stage4, load, runs, docs, sResp, sPc, sJob, hPc, batch_jobs, bPc, fault, ready,
                   stalled, cur, gather_sem, batch_sem>>

\* batch_job.per_ticker_status[ticker] = job.to_dict()
TaskSnapshot(b, t) ==
    /\ Running(b, t)
    /\ tPc[b][t] \in SnapPcs
    /\ batch_jobs' = [batch_jobs EXCEPT ![b].per_ticker_status =
                          Put(@, t, to_dict(tJob[b][t]))]
    /\ Goto(b, t, TaskNext(tPc[b][t]))
    /\ cur' = [cur EXCEPT ![b] = IF TaskNext(tPc[b][t]) = "done" THEN 0 ELSE @]
    /\ UNCHANGED <<call, stage4, load, runs, docs, refresh_jobs, sResp, sPc, sJob, hPc, bPc, tJob, fault,
                   ready, stalled, gather_sem, batch_sem>>

\* research = _load_research(ticker): FileNotFoundError if there is no file
TaskLoad(b, t) ==
    /\ Running(b, t)
    /\ tPc[b][t] = "load"
    /\ IF t \in docs
       THEN Goto(b, t, "acq_gather") /\ UNCHANGED fault
       ELSE /\ Goto(b, t, "x_status")
            /\ fault' = [fault EXCEPT ![b][t] = "not_found"]
    /\ UNCHANGED <<call, stage4, load, runs, docs, refresh_jobs, sResp, sPc, sJob, hPc, batch_jobs, bPc,
                   tJob, ready, stalled, cur, gather_sem, batch_sem>>

\* job.status = ..., job.stage_index = ..., job.error = ..., ...
TaskWrite(b, t) ==
    /\ Running(b, t)
    /\ tPc[b][t] \in WritePcs
    /\ tJob' = [tJob EXCEPT ![b][t] = JobWrite(tPc[b][t], @, fault[b][t])]
    /\ Goto(b, t, TaskNext(tPc[b][t]))
    /\ UNCHANGED <<call, stage4, load, runs, docs, refresh_jobs, sResp, sPc, sJob, hPc, batch_jobs, bPc,
                   fault, ready, stalled, cur, gather_sem, batch_sem>>

\* async with gather_sem: (entry)
TaskAcquireGather(b, t) ==
    /\ Running(b, t)
    /\ tPc[b][t] = "acq_gather"
    /\ IF ~locked(gather_sem, GatherPermits)
       THEN /\ gather_sem' = [gather_sem EXCEPT !.held = @ \cup {<<b, t>>}]
            /\ Goto(b, t, "g_status")
            /\ UNCHANGED <<fault, cur>>
       ELSE IF gather_sem.loop \in {0, b}
       THEN /\ gather_sem' = [gather_sem EXCEPT
                  !.loop = b,
                  !.waiters = Append(@, [b |-> b, t |-> t, woken |-> FALSE])]
            /\ Goto(b, t, "wait_gather")
            /\ cur' = [cur EXCEPT ![b] = 0]
            /\ UNCHANGED fault
       ELSE /\ fault' = [fault EXCEPT ![b][t] = "other_loop"]
            /\ Goto(b, t, "x_status")
            /\ UNCHANGED <<gather_sem, cur>>
    /\ UNCHANGED <<call, stage4, load, runs, docs, refresh_jobs, sResp, sPc, sJob, hPc, batch_jobs, bPc,
                   tJob, ready, stalled, batch_sem>>

\* the blocked acquire of gather_sem returns
TaskResumeGather(b, t) ==
    /\ Running(b, t)
    /\ tPc[b][t] = "wait_gather"
    /\ gather_sem' = resume(gather_sem, GatherPermits, b, t)
    /\ \E lost \in BOOLEAN :
           Schedule(Resumed(gather_sem, GatherPermits, b, t), b, lost)
    /\ Goto(b, t, "g_status")
    /\ UNCHANGED <<call, stage4, load, runs, docs, refresh_jobs, sResp, sPc, sJob, hPc, batch_jobs, bPc,
                   tJob, fault, cur, batch_sem>>

\* gathered = await gather_all_data(ticker, company_name): the task suspends
TaskGatherCall(b, t) ==
    /\ Running(b, t)
    /\ tPc[b][t] = "g_call"
    /\ Goto(b, t, "g_io")
    /\ cur' = [cur EXCEPT ![b] = 0]
    /\ UNCHANGED <<call, stage4, load, runs, docs, refresh_jobs, sResp, sPc, sJob, hPc, batch_jobs, bPc,
                   tJob, fault, ready, stalled, gather_sem, batch_sem>>

\* gather_all_data returns (it never raises): the loop of the batch wakes
GatherReturns(b, t) ==
    /\ t \in batch_jobs[b].tickers
    /\ tPc[b][t] = "g_io"
    /\ Goto(b, t, "g_release")
    /\ ready' = [ready EXCEPT ![b] = Append(stalled[b] \o @, t)]
    /\ stalled' = [stalled EXCEPT ![b] = <<>>]
    /\ UNCHANGED <<call, stage4, load, runs, docs, refresh_jobs, sResp, sPc, sJob, hPc, batch_jobs, bPc,
                   tJob, fault, cur, gather_sem, batch_sem>>

\* async with gather_sem: (exit)
TaskReleaseGather(b, t) ==
    /\ Running(b, t)
    /\ tPc[b][t] = "g_release"
    /\ gather_sem' = release(gather_sem, b, t)
    /\ \E lost \in BOOLEAN : Schedule(Released(gather_sem, b, t), b, lost)
    /\ Goto(b, t, "acq_llm")
    /\ UNCHANGED <<call, stage4, load, runs, docs, refresh_jobs, sResp, sPc, sJob, hPc, batch_jobs, bPc,
                   tJob, fault, cur, batch_sem>>

\* async with semaphore: (entry)
TaskAcquireLLM(b, t) ==
    /\ Running(b, t)
    /\ tPc[b][t] = "acq_llm"
    /\ IF ~locked(batch_sem, BatchPermits)
       THEN /\ batch_sem' = [batch_sem EXCEPT !.held = @ \cup {<<b, t>>}]
            /\ Goto(b, t, "s_status")
            /\ UNCHANGED <<fault, cur>>
       ELSE IF batch_sem.loop \in {0, b}
       THEN /\ batch_sem' = [batch_sem EXCEPT
                  !.loop = b,
                  !.waiters = Append(@, [b |-> b, t |-> t, woken |-> FALSE])]
            /\ Goto(b, t, "wait_llm")
            /\ cur' = [cur EXCEPT ![b] = 0]
            /\ UNCHANGED fault
       ELSE /\ fault' = [fault EXCEPT ![b][t] = "other_loop"]
            /\ Goto(b, t, "x_status")
            /\ UNCHANGED <<batch_sem, cur>>
    /\ UNCHANGED <<call, stage4, load, runs, docs, refresh_jobs, sResp, sPc, sJob, hPc, batch_jobs, bPc,
                   tJob, ready, stalled, gather_sem>>

\* the blocked acquire of the LLM semaphore returns
TaskResumeLLM(b, t) ==
    /\ Running(b, t)
    /\ tPc[b][t] = "wait_llm"
    /\ batch_sem' = resume(batch_sem, BatchPermits, b, t)
    /\ \E lost \in BOOLEAN :
           Schedule(Resumed(batch_sem, BatchPermits, b, t), b, lost)
    /\ Goto(b, t, "s_status")
    /\ UNCHANGED <<call, stage4, load, runs, docs, refresh_jobs, sResp, sPc, sJob, hPc, batch_jobs, bPc,
                   tJob, fault, cur, gather_sem>>

\* an exception leaves the `async with semaphore` block: the permit is
\* released on the way to the except block
TaskRaiseLLM(b, t, err) ==
    /\ fault' = [fault EXCEPT ![b][t] = err]
    /\ batch_sem' = release(batch_sem, b, t)
    /\ \E lost \in BOOLEAN : Schedule(Released(batch_sem, b, t), b, lost)
    /\ Goto(b, t, "x_status")

\* TaskSpecialists with a permit that is not released when stage 2 raises
TaskSpecialists_leak(b, t) ==
    /\ Running(b, t)
    /\ tPc[b][t] = "s_call"
    /\ \/ \E o \in load.outcomes :
             /\ tRun' = [tRun EXCEPT ![b][t].ev =
                            [out |-> o, update |-> run_evidence_specialists(o).update]]
             /\ Goto(b, t, "h_status")
             /\ UNCHANGED fault
       \/ /\ t \in load.flaky
          /\ fault' = [fault EXCEPT ![b][t] = "stage2_error"]
          /\ Goto(b, t, "x_status")
          /\ UNCHANGED tRun
    /\ UNCHANGED <<call, stage4, load, sFault, sRun, saved, docs, refresh_jobs, sResp, sPc, sJob,
                   hPc, batch_jobs, bPc, tJob, ready, stalled, cur, gather_sem,
                   batch_sem>>

\* evidence_update = await _run_evidence_specialists(...): a synchronous
\* call.  Building the prompt may raise (flaky); the completion call has one
\* of the outcomes of the workload.
TaskSpecialists(b, t) ==
    /\ Running(b, t)
    /\ tPc[b][t] = "s_call"
    /\ \/ \E o \in load.outcomes :
             LET r == run_evidence_specialists(o) IN
             /\ tRun' = [tRun EXCEPT ![b][t].ev = [out |-> o, update |-> r.update]]
             /\ IF r.raised
                THEN TaskRaiseLLM(b, t, "stage2_error")
                ELSE /\ Goto(b, t, "h_status")
                     /\ UNCHANGED <<fault, batch_sem, ready, stalled>>
       \/ /\ t \in load.flaky
          /\ TaskRaiseLLM(b, t, "stage2_error")
          /\ UNCHANGED tRun
    /\ UNCHANGED <<call, stage4, load, sFault, sRun, saved, docs, refresh_jobs, sResp, sPc, sJob,
                   hPc, batch_jobs, bPc, tJob, cur, gather_sem>>

\* hypothesis_update = await _run_hypothesis_synthesis(...), then the exit of
\* the async with block
TaskSynthesis(b, t) ==
    /\ Running(b, t)
    /\ tPc[b][t] = "h_call"
    /\ batch_sem' = release(batch_sem, b, t)
    /\ \E lost \in BOOLEAN : Schedule(Released(batch_sem, b, t), b, lost)
    /\ \/ \E oc, og \in load.outcomes :
             /\ tRun' = [tRun EXCEPT ![b][t].hyp =
                            run_hypothesis_synthesis(load.key, oc, og)]
             /\ Goto(b, t, "w_status")
             /\ UNCHANGED fault
       \/ /\ t \in load.flaky
          /\ fault' = [fault EXCEPT ![b][t] = "stage3_error"]
          /\ Goto(b, t, "x_status")
          /\ UNCHANGED tRun
    /\ UNCHANGED <<call, stage4, load, sFault, sRun, saved, docs, refresh_jobs, sResp, sPc, sJob,
                   hPc, batch_jobs, bPc, tJob, cur, gather_sem>>

\* TaskWriteResults that does not write the document
TaskWriteResults_nosave(b, t) ==
    /\ Running(b, t)
    /\ tPc[b][t] = "w_write"
    /\ IF ~merge_accepts(tRun[b][t].ev.update, tRun[b][t].hyp.update)
       THEN /\ fault' = [fault EXCEPT ![b][t] = "merge_error"]
            /\ Goto(b, t, "x_status")
       ELSE Goto(b, t, "c_status") /\ UNCHANGED fault
    /\ UNCHANGED <<call, stage4, load, runs, docs, refresh_jobs, sResp, sPc, sJob, hPc, batch_jobs,
                   bPc, tJob, ready, stalled, cur, gather_sem, batch_sem>>

\* _merge_updates, _save_research, _update_index: the merge raises on a
\* payload it does not accept; _save_research may raise (flaky), before or
\* after it has opened the file for writing
TaskWriteResults(b, t) ==
    /\ Running(b, t)
    /\ tPc[b][t] = "w_write"
    /\ IF ~merge_accepts(tRun[b][t].ev.update, tRun[b][t].hyp.update)
       THEN /\ fault' = [fault EXCEPT ![b][t] = "merge_error"]
            /\ Goto(b, t, "x_status")
            /\ UNCHANGED saved
       ELSE \/ /\ saved' = saved \cup {BatchRef(b, t)}
               /\ Goto(b, t, "c_status")
               /\ UNCHANGED fault
            \/ /\ t \in load.flaky
               /\ fault' = [fault EXCEPT ![b][t] = "write_error"]
               /\ \E wrote \in BOOLEAN :
                      saved' = IF wrote THEN saved \cup {BatchRef(b, t)} ELSE saved
               /\ Goto(b, t, "x_status")
    /\ UNCHANGED <<call, stage4, load, tRun, sFault, sRun, docs, refresh_jobs, sResp, sPc, sJob,
                   hPc, batch_jobs, bPc, tJob, ready, stalled, cur, gather_sem,
                   batch_sem>>

\* the end of the except block that does not record the error in the batch
TaskRecordError_skip(b, t) ==
    /\ Running(b, t)
    /\ tPc[b][t] = "x_errors"
    /\ Goto(b, t, "done")
    /\ cur' = [cur EXCEPT ![b] = 0]
    /\ UNCHANGED <<call, stage4, load, runs, docs, refresh_jobs, sResp, sPc, sJob, hPc, batch_jobs, bPc,
                   tJob, fault, ready, stalled, gather_sem, batch_sem>>

\* batch_job.errors[ticker] = str(e); return None
TaskRecordError(b, t) ==
    /\ Running(b, t)
    /\ tPc[b][t] = "x_errors"
    /\ batch_jobs' = [batch_jobs EXCEPT ![b].errors = Put(@, t, fault[b][t])]
    /\ Goto(b, t, "done")
    /\ cur' = [cur EXCEPT ![b] = 0]
    /\ UNCHANGED <<call, stage4, load, runs, docs, refresh_jobs, sResp, sPc, sJob, hPc, bPc, tJob, fault,
                   ready, stalled, gather_sem, batch_sem>>

-----------------------------------------------------------------------------
(* run_batch_refresh(batch_id, tickers): the coordinator of batch b         *)

\* a ticker list in its (sorted) order
SortedSeq(S) ==
    CHOOSE q \in [1..Cardinality(S) -> S] :
        \A i, j \in 1..Cardinality(S) : i < j => q[i] < q[j]

AllTasksDone(b) == \A t \in batch_jobs[b].tickers : tPc[b][t] = "done"

\* FinalStatus without the partially_failed case
FinalStatus_nopartial(bj) ==
    IF total_failed(bj) = 0 THEN "completed" ELSE "failed"

\* batch terminal status derivation
FinalStatus(bj) ==
    IF total_failed(bj) = 0 THEN "completed"
    ELSE IF total_completed(bj) = 0 THEN "failed"
    ELSE "partially_failed"

\* batch_job = BatchRefreshJob(..., status="in_progress");
\* batch_jobs[batch_id] = batch_job
BatchCreate(b) ==
    /\ bPc[b] = "queued"
    /\ batch_jobs' = batch_jobs_with(b,
           [tickers |-> batch_jobs[b].tickers, status |-> "in_progress",
            latest |-> TRUE, completed_at |-> FALSE,
            per_ticker_status |-> <<>>, errors |-> <<>>])
    /\ bPc' = [bPc EXCEPT ![b] = "init"]
    /\ UNCHANGED <<call, stage4, load, runs, docs, refresh_jobs, sResp, sPc, sJob, hPc, tPc, tJob, fault,
                   ready, stalled, cur, gather_sem, batch_sem>>

\* for t in tickers: batch_job.per_ticker_status[t] = {... "queued" ...}
BatchInitEntry(b) ==
    /\ bPc[b] = "init"
    /\ \E t \in batch_jobs[b].tickers :
         /\ t \notin DOMAIN batch_jobs[b].per_ticker_status
         /\ \A u \in batch_jobs[b].tickers :
                u < t => u \in DOMAIN batch_jobs[b].per_ticker_status
         /\ batch_jobs' = [batch_jobs EXCEPT ![b].per_ticker_status =
                               Put(@, t, QueuedEntry)]
    /\ UNCHANGED <<call, stage4, load, runs, docs, refresh_jobs, sResp, sPc, sJob, hPc, bPc, tPc, tJob,
                   fault, ready, stalled, cur, gather_sem, batch_sem>>

\* results = await asyncio.gather(*[_run_single_in_batch(t, batch_job) ...],
\*                                return_exceptions=True): the tasks start
BatchLaunch(b) ==
    /\ bPc[b] = "init"
    /\ batch_jobs[b].tickers \subseteq DOMAIN batch_jobs[b].per_ticker_status
    /\ ready' = [ready EXCEPT ![b] = SortedSeq(batch_jobs[b].tickers)]
    /\ tPc' = [tPc EXCEPT ![b] =
                  [t \in Tickers |->
                      IF t \in batch_jobs[b].tickers THEN "create" ELSE @[t]]]
    /\ bPc' = [bPc EXCEPT ![b] = "wait"]
    /\ UNCHANGED <<call, stage4, load, runs, docs, refresh_jobs, sResp, sPc, sJob, hPc, batch_jobs, tJob,
                   fault, stalled, cur, gather_sem, batch_sem>>

\* BatchGathered to which the exception of a task propagates: it returns
\* when a task has failed
BatchGathered_abort(b) ==
    /\ bPc[b] = "wait"
    /\ \/ AllTasksDone(b)
       \/ \E t \in batch_jobs[b].tickers :
              tPc[b][t] = "done" /\ fault[b][t] # "none"
    /\ cur[b] = 0
    /\ batch_jobs' = [batch_jobs EXCEPT ![b].completed_at = TRUE]
    /\ bPc' = [bPc EXCEPT ![b] = "status"]
    /\ UNCHANGED <<call, stage4, load, runs, docs, refresh_jobs, sResp, sPc, sJob, hPc, tPc, tJob, fault,
                   ready, stalled, cur, gather_sem, batch_sem>>

\* BatchGathered that returns as soon as one task has returned
BatchGathered_first(b) ==
    /\ bPc[b] = "wait"
    /\ \E t \in batch_jobs[b].tickers : tPc[b][t] = "done"
    /\ cur[b] = 0
    /\ batch_jobs' = [batch_jobs EXCEPT ![b].completed_at = TRUE]
    /\ bPc' = [bPc EXCEPT ![b] = "status"]
    /\ UNCHANGED <<call, stage4, load, runs, docs, refresh_jobs, sResp, sPc, sJob, hPc, tPc, tJob, fault,
                   ready, stalled, cur, gather_sem, batch_sem>>

\* asyncio.gather returns once every task has returned; no task returns an
\* exception (each catches its own); batch_job.completed_at = time.time()
BatchGathered(b) ==
    /\ bPc[b] = "wait"
    /\ AllTasksDone(b)
    /\ cur[b] = 0
    /\ batch_jobs' = [batch_jobs EXCEPT ![b].completed_at = TRUE]
    /\ bPc' = [bPc EXCEPT ![b] = "status"]
    /\ UNCHANGED <<call, stage4, load, runs, docs, refresh_jobs, sResp, sPc, sJob, hPc, tPc, tJob, fault,
                   ready, stalled, cur, gather_sem, batch_sem>>

\* if batch_job.total_failed == 0: ... elif ... else ...
BatchFinalize(b) ==
    /\ bPc[b] = "status"
    /\ batch_jobs' = [batch_jobs EXCEPT ![b].status = FinalStatus(batch_jobs[b])]
    /\ bPc' = [bPc EXCEPT ![b] = "done"]
    /\ UNCHANGED <<call, stage4, load, runs, docs, refresh_jobs, sResp, sPc, sJob, hPc, tPc, tJob, fault,
                   ready, stalled, cur, gather_sem, batch_sem>>

-----------------------------------------------------------------------------
(* run_refresh(ticker): the pipeline of the single refresh s                *)

SingleNext(pc) ==
    CASE pc = "create"   -> "load"
      [] pc = "g_status" -> "g_index"
      [] pc = "g_index"  -> "g_call"
      [] pc = "g_call"   -> "s_status"
      [] pc = "s_status" -> "s_index"
      [] pc = "s_index"  -> "s_call"
      [] pc = "h_status" -> "h_index"
      [] pc = "h_index"  -> "h_call"
      [] pc = "w_status" -> "w_index"
      [] pc = "w_index"  -> "w_write"
      [] pc = "c_status" -> "c_index"
      [] pc = "c_index"  -> "c_time"
      [] pc = "c_time"   -> "c_result"
      [] pc = "c_result" -> "done"
      [] pc = "x_status" -> "x_error"
      [] pc = "x_error"  -> "x_time"
      [] pc = "x_time"   -> "done"

\* the statements that assign one field of the pipeline's RefreshJob
SingleWrite(pc, job, err) ==
    CASE pc = "g_status" -> [job EXCEPT !.status = "gathering_data"]
      [] pc = "g_index"  -> [job EXCEPT !.stage_index = 1]
      [] pc = "s_status" -> [job EXCEPT !.status = "specialist_analysis"]
      [] pc = "s_index"  -> [job EXCEPT !.stage_index = 2]
      [] pc = "h_status" -> [job EXCEPT !.status = "hypothesis_synthesis"]
      [] pc = "h_index"  -> [job EXCEPT !.stage_index = 3]
      [] pc = "w_status" -> [job EXCEPT !.status = "writing_results"]
      [] pc = "w_index"  -> [job EXCEPT !.stage_index = 4]
      [] pc = "c_status" -> [job EXCEPT !.status = "completed"]
      [] pc = "c_index"  -> [job EXCEPT !.stage_index = 5]
      [] pc = "c_time"   -> [job EXCEPT !.completed_at = TRUE]
      [] pc = "c_result" -> [job EXCEPT !.result = TRUE]
      [] pc = "x_status" -> [job EXCEPT !.status = "failed"]
      [] pc = "x_error"  -> [job EXCEPT !.error = err]
      [] pc = "x_time"   -> [job EXCEPT !.completed_at = TRUE]

\* job = RefreshJob(ticker=ticker); refresh_jobs[ticker] = job
SingleCreate(s) ==
    /\ sPc[s] = "create"
    /\ refresh_jobs' = [refresh_jobs EXCEPT ![sResp[s].ticker] = SingleRef(s)]
    /\ sJob' = [sJob EXCEPT ![s] = NewJob]
    /\ sPc' = [sPc EXCEPT ![s] = SingleNext("create")]
    /\ UNCHANGED <<call, stage4, load, runs, docs, sResp, hPc, batch_jobs, bPc, tPc, tJob, fault, ready,
                   stalled, cur, gather_sem, batch_sem>>

\* research = _load_research(ticker)
SingleLoad(s) ==
    /\ sPc[s] = "load"
    /\ IF sResp[s].ticker \in docs
       THEN sPc' = [sPc EXCEPT ![s] = "g_status"] /\ UNCHANGED sFault
       ELSE /\ sPc' = [sPc EXCEPT ![s] = "x_status"]
            /\ sFault' = [sFault EXCEPT ![s] = "not_found"]
    /\ UNCHANGED <<call, stage4, load, tRun, sRun, saved, docs, refresh_jobs, sResp, sJob, hPc,
                   batch_jobs, bPc, tPc, tJob, fault, ready, stalled, cur,
                   gather_sem, batch_sem>>

\* job.status = ..., job.stage_index = ..., ...
SingleStep(s) ==
    /\ sPc[s] \in WritePcs
    /\ sJob' = [sJob EXCEPT ![s] = SingleWrite(sPc[s], @, sFault[s])]
    /\ sPc' = [sPc EXCEPT ![s] = SingleNext(@)]
    /\ UNCHANGED <<call, stage4, load, runs, docs, refresh_jobs, sResp, hPc, batch_jobs, bPc, tPc, tJob,
                   fault, ready, stalled, cur, gather_sem, batch_sem>>

\* gathered = await gather_all_data(ticker, company_name) (it never raises)
SingleGather(s) ==
    /\ sPc[s] = "g_call"
    /\ sPc' = [sPc EXCEPT ![s] = SingleNext(@)]
    /\ UNCHANGED <<call, stage4, load, runs, docs, refresh_jobs, sResp, sJob, hPc, batch_jobs, bPc, tPc,
                   tJob, fault, ready, stalled, cur, gather_sem, batch_sem>>

\* an exception reaches the except block of run_refresh
SingleRaise(s, err) ==
    /\ sFault' = [sFault EXCEPT ![s] = err]
    /\ sPc' = [sPc EXCEPT ![s] = "x_status"]

\* evidence_update = await _run_evidence_specialists(...)
SingleSpecialists(s) ==
    /\ sPc[s] = "s_call"
    /\ \/ \E o \in load.outcomes :
             LET r == run_evidence_specialists(o) IN
             /\ sRun' = [sRun EXCEPT ![s].ev = [out |-> o, update |-> r.update]]
             /\ IF r.raised
                THEN SingleRaise(s, "stage2_error")
                ELSE sPc' = [sPc EXCEPT ![s] = "h_status"] /\ UNCHANGED sFault
       \/ /\ sResp[s].ticker \in load.flaky
          /\ SingleRaise(s, "stage2_error")
          /\ UNCHANGED sRun
    /\ UNCHANGED <<call, stage4, load, tRun, saved, docs, refresh_jobs, sResp, sJob, hPc,
                   batch_jobs, bPc, tPc, tJob, fault, ready, stalled, cur,
                   gather_sem, batch_sem>>

\* hypothesis_update = await _run_hypothesis_synthesis(...)
SingleSynthesis(s) ==
    /\ sPc[s] = "h_call"
    /\ \/ \E oc, og \in load.outcomes :
             /\ sRun' = [sRun EXCEPT ![s].hyp =
                            run_hypothesis_synthesis(load.key, oc, og)]
             /\ sPc' = [sPc EXCEPT ![s] = "w_status"]
             /\ UNCHANGED sFault
       \/ /\ sResp[s].ticker \in load.flaky
          /\ SingleRaise(s, "stage3_error")
          /\ UNCHANGED sRun
    /\ UNCHANGED <<call, stage4, load, tRun, saved, docs, refresh_jobs, sResp, sJob, hPc,
                   batch_jobs, bPc, tPc, tJob, fault, ready, stalled, cur,
                   gather_sem, batch_sem>>

\* _merge_updates, _save_research, _update_index
SingleWriteResults(s) ==
    /\ sPc[s] = "w_write"
    /\ IF ~merge_accepts(sRun[s].ev.update, sRun[s].hyp.update)
       THEN SingleRaise(s, "merge_error") /\ UNCHANGED saved
       ELSE \/ /\ saved' = saved \cup {SingleRef(s)}
               /\ sPc' = [sPc EXCEPT ![s] = "c_status"]
               /\ UNCHANGED sFault
            \/ /\ sResp[s].ticker \in load.flaky
               /\ SingleRaise(s, "write_error")
               /\ \E wrote \in BOOLEAN :
                      saved' = IF wrote THEN saved \cup {SingleRef(s)} ELSE saved
    /\ UNCHANGED <<call, stage4, load, tRun, sRun, docs, refresh_jobs, sResp, sJob, hPc,
                   batch_jobs, bPc, tPc, tJob, fault, ready, stalled, cur,
                   gather_sem, batch_sem>>

-----------------------------------------------------------------------------
(* The request handlers of main.py                                          *)

\* running: is_running(ticker) at the time of the call (kept for the record)
NoResp == [ticker |-> 0, code |-> "none", running |-> FALSE]

\* refresh_response without the check of the ticker's own job
refresh_response_nojob(t) ==
    IF t \notin docs THEN "404"
    ELSE IF is_batch_running THEN "409"
    ELSE "started"

\* the response trigger_refresh gives for ticker t in the current state
refresh_response(t) ==
    IF t \notin docs THEN "404"
    ELSE IF is_batch_running THEN "409"
    ELSE IF is_running(t) THEN "409"
    ELSE "started"

\* GET /api/refresh/{ticker}/status: the handler has no await, it reads the
\* job in the state it finds it in
refresh_status(t) ==
    IF get_job(t) = NoJob THEN [code |-> "404", body |-> to_dict(NewJob)]
    ELSE [code |-> "200", body |-> to_dict(JobOf(get_job(t)))]

\* GET /api/refresh/{ticker}/result
refresh_result(t) ==
    LET job == JobOf(get_job(t)) IN
    IF get_job(t) = NoJob THEN [code |-> "404", body |-> "none"]
    ELSE IF job.status = "failed" THEN [code |-> "500", body |-> job.error]
    ELSE IF job.status # "completed" THEN [code |-> "202", body |-> job.status]
    ELSE IF job.result THEN [code |-> "200", body |-> "result"]
    ELSE IF t \in docs THEN [code |-> "200", body |-> "file"]
    ELSE [code |-> "404", body |-> "none"]

\* GET /api/refresh-all/results: per ticker of the latest batch, the result
\* of the job the tracker holds for the ticker (the document that run has
\* produced), or else the file of the ticker as it is on disk
batch_refresh_results ==
    LET b == get_latest_batch_job IN
    IF b = 0 THEN [code |-> "404", results |-> <<>>]
    ELSE IF batch_jobs[b].status \in {"queued", "in_progress"}
    THEN [code |-> "202", results |-> <<>>]
    ELSE [code |-> "200",
          results |->
             [t \in {u \in batch_jobs[b].tickers :
                        \/ get_job(u) # NoJob /\ JobOf(get_job(u)).result
                        \/ u \in docs} |->
                 IF get_job(t) # NoJob /\ JobOf(get_job(t)).result
                 THEN <<"result", get_job(t)>>
                 ELSE <<"file", NoJob>>]]

\* POST /api/refresh/{ticker}: the s-th call, for ticker t
trigger_refresh(s, t) ==
    /\ s <= load.singles
    /\ sResp[s] = NoResp
    /\ \A r \in Singles : r < s => sResp[r] # NoResp
    /\ sResp' = [sResp EXCEPT ![s] = [ticker |-> t, code |-> refresh_response(t),
                                      running |-> is_running(t)]]
    /\ IF refresh_response(t) = "started"
       THEN /\ sPc' = [sPc EXCEPT ![s] = "create"]
            /\ refresh_jobs' = [refresh_jobs EXCEPT ![t] = PreRef(s)]
       ELSE UNCHANGED <<sPc, refresh_jobs>>
    /\ UNCHANGED <<call, stage4, load, runs, docs, sJob, hPc, batch_jobs, bPc, tPc, tJob, fault, ready,
                   stalled, cur, gather_sem, batch_sem>>

\* POST /api/refresh-all, up to `body = await request.json()`
trigger_refresh_all_check(b) ==
    /\ load.bodies[b] # {}
    /\ hPc[b] = "none"
    /\ \A r \in Batches : r < b => hPc[r] # "none"
    /\ hPc' = [hPc EXCEPT ![b] = IF is_batch_running THEN "409" ELSE "body"]
    /\ UNCHANGED <<call, stage4, load, runs, docs, refresh_jobs, sResp, sPc, sJob, batch_jobs, bPc, tPc,
                   tJob, fault, ready, stalled, cur, gather_sem, batch_sem>>

\* the tickers a request body selects; no body selects every research file
RequestBodies == SUBSET Tickers

batch_tickers(body) == IF body # {} THEN body ELSE docs

\* POST /api/refresh-all, from the body on: the batch is launched and the
\* BatchRefreshJob pre-created
trigger_refresh_all_launch(b, body) ==
    /\ hPc[b] = "body"
    /\ body \in load.bodies[b]
    /\ IF batch_tickers(body) = {}
       THEN /\ hPc' = [hPc EXCEPT ![b] = "404"]
            /\ UNCHANGED <<batch_jobs, bPc>>
       ELSE /\ hPc' = [hPc EXCEPT ![b] = "started"]
            /\ bPc' = [bPc EXCEPT ![b] = "queued"]
            /\ batch_jobs' = batch_jobs_with(b,
                   [tickers |-> batch_tickers(body), status |-> "in_progress",
                    latest |-> TRUE, completed_at |-> FALSE,
                    per_ticker_status |->
                        [t \in batch_tickers(body) |-> QueuedEntry],
                    errors |-> <<>>])
    /\ UNCHANGED <<call, stage4, load, runs, docs, refresh_jobs, sResp, sPc, sJob, tPc, tJob, fault,
                   ready, stalled, cur, gather_sem, batch_sem>>

-----------------------------------------------------------------------------
(* Stage 4 in detail: the research document and _merge_updates.  Texts are  *)
(* strings, composed texts are sequences of their parts, numbers are        *)
(* written as Python writes them.                                           *)

\* an optional text field of a payload: the key is absent, or a text that
\* may be empty
Absent == "<absent>"

\* `if x.get(key) != "":`, which holds for an absent key
NotEmptyText(x) == x # ""

\* `if x.get(key):`
Truthy(x) == x # Absent /\ x # ""

\* x.get(key, default)
Get(x, default) == IF x = Absent THEN default ELSE x

\* tiers and labels compared as they are written
as_written(s) == s

\* str.lower() on the tiers and labels that occur
lower(s) ==
    CASE s = "T1" -> "t1"
      [] s = "T2" -> "t2"
      [] s = "T3" -> "t3"
      [] s = "T2x" -> "t2x"
      [] s = "T1 Growth" -> "t1 growth"
      [] s = "T2 Decline" -> "t2 decline"
      [] OTHER -> s

\* tier[:2]
first_two(s) == IF s = "t2x" THEN "t2" ELSE s

\* label.startswith(prefix), for a lower-case label and a prefix of at most
\* two characters
startswith(label, prefix) ==
    prefix \in (CASE label = "t1 growth" -> {"", "t", "t1"}
                  [] label = "t2 decline" -> {"", "t", "t2"}
                  [] OTHER -> {""})

\* f"{x:.2f}"
format2(x) ==
    CASE x = "12.5" -> "12.50"
      [] x = "9.0" -> "9.00"
      [] x = "15.25" -> "15.25"
      [] x = "0" -> "0.00"
      [] OTHER -> x

\* str(x) of a number
str(x) == x

\* datetime.now(timezone.utc) as _merge_updates formats it
now == "2026-03-01 10:00 UTC"
now_iso == "2026-03-01T10:00:00+00:00"

\* f"<strong>[Updated {now}]</strong> "
UpdatedMarker == <<"<strong>[Updated ", now, "]</strong> ">>

\* a research document with every section
DocFull ==
    [price |-> "11.0", currency |-> "A$",
     heroMetrics |->
        << [label |-> "Price", value |-> <<"A$", "11.00">>],
           [label |-> "52-Week Range",
            value |-> <<"A$", "8.00", " - A$", "14.00">>],
           [label |-> "Market Cap", value |-> <<"A$40B">>] >>,
     priceHistory |-> <<"2026-02-27 11.0">>,
     cards |->
        << [number |-> 1, title |-> "Corporate", finding |-> "f1", tension |-> "x1"],
           [number |-> 2, title |-> "Regulatory", finding |-> "f2", tension |-> "x2"] >>,
     hypotheses |->
        << [tier |-> "T1", score |-> "40%", scoreWidth |-> "40%", description |-> "d1"],
           [tier |-> "T2", score |-> "60%", scoreWidth |-> "60%", description |-> "d2"] >>,
     verdict |->
        [present |-> TRUE, text |-> "v0",
         scores |->
            << [label |-> "T1 Growth", score |-> "40%",
                dirArrow |-> "&uarr;", dirText |-> "Rising"],
               [label |-> "T2 Decline", score |-> "60%",
                dirArrow |-> "&darr;", dirText |-> "Falling"] >>],
     hero |-> [present |-> TRUE, embedded_thesis |-> "e0",
               skew_description |-> "s0", next_decision_point |-> "ndp0"],
     narrative |->
        [present |-> TRUE, theNarrative |-> <<"n0">>,
         priceImplication |->
            [content |-> "pi0", label |-> <<"Embedded Assumptions at A$", "11.00">>],
         evidenceCheck |-> "ec0", narrativeStability |-> "ns0"],
     date |-> "2026-02-27 09:00 UTC", lastRefreshed |-> "2026-02-27T09:00:00+00:00"]

\* a research document without hero metrics, verdict, hero and narrative,
\* with lower-case tiers
DocBare ==
    [DocFull EXCEPT
        !.heroMetrics = <<>>,
        !.cards = << [number |-> 2, title |-> "Regulatory", finding |-> "f2",
                      tension |-> "x2"] >>,
        !.hypotheses =
            << [tier |-> "t1", score |-> "40%", scoreWidth |-> "40%",
                description |-> "d1"],
               [tier |-> "t2", score |-> "60%", scoreWidth |-> "60%",
                description |-> "d2"] >>,
        !.verdict = [present |-> FALSE, text |-> Absent, scores |-> <<>>],
        !.hero = [present |-> FALSE, embedded_thesis |-> Absent,
                  skew_description |-> Absent, next_decision_point |-> Absent],
        !.narrative =
            [present |-> FALSE, theNarrative |-> <<>>,
             priceImplication |-> [content |-> Absent, label |-> <<>>],
             evidenceCheck |-> Absent, narrativeStability |-> Absent]]

Documents == {DocFull, DocBare}

\* price_update without the check for the error marker
price_update_unchecked(d, price_data) ==
    [d EXCEPT
            !.price = str(Get(price_data.price, d.price)),
            !.currency = Get(price_data.currency, "A$"),
            !.heroMetrics =
                [i \in DOMAIN d.heroMetrics |->
                    LET m == d.heroMetrics[i] IN
                    IF m.label \in {"Price", "Share Price", "Current Price"}
                    THEN [m EXCEPT !.value = <<"A$", format2(price_data.price)>>]
                    ELSE IF m.label = "52-Week Range"
                    THEN [m EXCEPT !.value =
                             <<"A$", format2(Get(price_data.low_52w, "0")), " - A$",
                               format2(Get(price_data.high_52w, "0"))>>]
                    ELSE m],
            !.priceHistory =
                IF price_data.price_history # <<>>
                THEN price_data.price_history ELSE d.priceHistory]

\* f"A${price_data['price']:.2f}" for a metric row labelled as the price
\* raises KeyError when the price data has neither error marker nor price
price_raises(d, price_data) ==
    /\ ~price_data.error
    /\ price_data.price = Absent
    /\ \E i \in DOMAIN d.heroMetrics :
           d.heroMetrics[i].label \in {"Price", "Share Price", "Current Price"}

\* -- Price update --
price_update(d, price_data) ==
    IF price_data.error THEN d
    ELSE [d EXCEPT
            !.price = str(Get(price_data.price, d.price)),
            !.currency = Get(price_data.currency, "A$"),
            !.heroMetrics =
                [i \in DOMAIN d.heroMetrics |->
                    LET m == d.heroMetrics[i] IN
                    IF m.label \in {"Price", "Share Price", "Current Price"}
                    THEN [m EXCEPT !.value = <<"A$", format2(price_data.price)>>]
                    ELSE IF m.label = "52-Week Range"
                    THEN [m EXCEPT !.value =
                             <<"A$", format2(Get(price_data.low_52w, "0")), " - A$",
                               format2(Get(price_data.high_52w, "0"))>>]
                    ELSE m],
            !.priceHistory =
                IF price_data.price_history # <<>>
                THEN price_data.price_history ELSE d.priceHistory]

\* index of the first existing card with the number, 0 if none
first_card(cards, number) ==
    IF \E i \in DOMAIN cards : cards[i].number = number
    THEN CHOOSE i \in DOMAIN cards :
             /\ cards[i].number = number
             /\ \A j \in 1..(i - 1) : cards[j].number # number
    ELSE 0

\* the body of `for update_card in evidence_cards:` that does not look at
\* the materiality flag
update_card_unflagged(cards, uc) ==
    LET i == first_card(cards, uc.number) IN
    IF i = 0 THEN cards
    ELSE [cards EXCEPT ![i] =
            [cards[i] EXCEPT
                !.finding = IF Truthy(uc.updated_finding)
                            THEN uc.updated_finding ELSE cards[i].finding,
                !.tension = IF Truthy(uc.updated_tension)
                            THEN uc.updated_tension ELSE cards[i].tension]]

\* the body of `for update_card in evidence_cards:`
update_card(cards, uc) ==
    IF ~uc.material_change THEN cards
    ELSE LET i == first_card(cards, uc.number) IN
         IF i = 0 THEN cards
         ELSE [cards EXCEPT ![i] =
                 [cards[i] EXCEPT
                     !.finding = IF Truthy(uc.updated_finding)
                                 THEN uc.updated_finding
                                 ELSE cards[i].finding,
                     !.tension = IF Truthy(uc.updated_tension)
                                 THEN uc.updated_tension
                                 ELSE cards[i].tension]]

RECURSIVE update_cards(_, _)
\* -- Evidence card updates --
update_cards(cards, evidence_cards) ==
    IF evidence_cards = <<>> THEN cards
    ELSE update_cards(update_card(cards, Head(evidence_cards)), Tail(evidence_cards))

\* index of the first verdict score row whose label (lower case) starts with
\* the first two characters of the tier, 0 if none
first_score(scores, tier) ==
    IF \E k \in DOMAIN scores : startswith(lower(scores[k].label), first_two(tier))
    THEN CHOOSE k \in DOMAIN scores :
             /\ startswith(lower(scores[k].label), first_two(tier))
             /\ \A j \in 1..(k - 1) :
                    ~startswith(lower(scores[j].label), first_two(tier))
    ELSE 0

dir_map(direction) ==
    CASE direction = "up" -> <<"&uarr;", "Rising">>
      [] direction = "down" -> <<"&darr;", "Falling">>
      [] OTHER -> <<"&rarr;", "Steady">>

\* the body of `for hu in hyp_updates:`: every hypothesis of the tier takes
\* the score and the description supplied and, if there is one, the first
\* verdict score row of the tier takes the score and the direction
update_hypothesis(d, hu) ==
    LET tier == lower(Get(hu.tier, ""))
        matched == {i \in DOMAIN d.hypotheses : lower(d.hypotheses[i].tier) = tier}
        arrow == dir_map(Get(hu.direction, "steady"))
        k == first_score(d.verdict.scores, tier)
    IN
    IF matched = {} THEN d
    ELSE [d EXCEPT
            !.hypotheses =
                [i \in DOMAIN d.hypotheses |->
                    LET h == d.hypotheses[i] IN
                    IF i \notin matched THEN h
                    ELSE [h EXCEPT
                            !.score = IF Truthy(hu.updated_score)
                                      THEN hu.updated_score ELSE h.score,
                            !.scoreWidth = IF Truthy(hu.updated_score)
                                           THEN hu.updated_score ELSE h.scoreWidth,
                            !.description = IF Truthy(hu.updated_description)
                                            THEN hu.updated_description
                                            ELSE h.description]],
            !.verdict.scores =
                [j \in DOMAIN d.verdict.scores |->
                    LET vs == d.verdict.scores[j] IN
                    IF d.verdict.present /\ j = k
                    THEN [vs EXCEPT !.score = Get(hu.updated_score, vs.score),
                                    !.dirArrow = arrow[1],
                                    !.dirText = arrow[2]]
                    ELSE vs]]

RECURSIVE update_hypotheses(_, _)
\* -- Hypothesis weight updates --
update_hypotheses(d, hyp_updates) ==
    IF hyp_updates = <<>> THEN d
    ELSE update_hypotheses(update_hypothesis(d, Head(hyp_updates)), Tail(hyp_updates))

\* -- Hero section rewrites --
update_hero(d, hypothesis_update) ==
    IF ~d.hero.present THEN d
    ELSE [d EXCEPT
            !.hero.embedded_thesis =
                IF Truthy(hypothesis_update.embedded_thesis)
                THEN hypothesis_update.embedded_thesis ELSE d.hero.embedded_thesis,
            !.hero.skew_description =
                IF Truthy(hypothesis_update.skew_description)
                THEN hypothesis_update.skew_description
                ELSE d.hero.skew_description,
            !.hero.next_decision_point =
                IF Truthy(hypothesis_update.next_decision_point)
                THEN hypothesis_update.next_decision_point
                ELSE d.hero.next_decision_point]

\* update_narrative that replaces the narrative by the short update as well
update_narrative_replace(d, price_data, hypothesis_update) ==
    IF ~d.narrative.present THEN d
    ELSE [d EXCEPT
            !.narrative.theNarrative =
                IF Truthy(hypothesis_update.narrative_rewrite)
                THEN UpdatedMarker \o <<hypothesis_update.narrative_rewrite>>
                ELSE IF Truthy(hypothesis_update.narrative_update)
                THEN UpdatedMarker \o <<hypothesis_update.narrative_update>>
                ELSE d.narrative.theNarrative]

\* -- Full narrative rewrite --
update_narrative(d, price_data, hypothesis_update) ==
    IF ~d.narrative.present THEN d
    ELSE [d EXCEPT
            !.narrative.theNarrative =
                IF Truthy(hypothesis_update.narrative_rewrite)
                THEN UpdatedMarker \o <<hypothesis_update.narrative_rewrite>>
                ELSE IF Truthy(hypothesis_update.narrative_update)
                THEN UpdatedMarker
                        \o <<hypothesis_update.narrative_update, "<br><br>">>
                        \o d.narrative.theNarrative
                ELSE d.narrative.theNarrative,
            !.narrative.priceImplication =
                IF Truthy(hypothesis_update.price_implication)
                THEN [content |-> hypothesis_update.price_implication,
                      label |-> IF ~price_data.error /\ price_data.price \notin {Absent, "0"}
                                THEN <<"Embedded Assumptions at A$",
                                       format2(price_data.price)>>
                                ELSE d.narrative.priceImplication.label]
                ELSE d.narrative.priceImplication,
            !.narrative.evidenceCheck =
                IF Truthy(hypothesis_update.evidence_check)
                THEN hypothesis_update.evidence_check
                ELSE d.narrative.evidenceCheck,
            !.narrative.narrativeStability =
                IF Truthy(hypothesis_update.narrative_stability)
                THEN hypothesis_update.narrative_stability
                ELSE d.narrative.narrativeStability]

\* -- Verdict update --
update_verdict(d, hypothesis_update) ==
    IF Truthy(hypothesis_update.verdict_update) /\ d.verdict.present
    THEN [d EXCEPT !.verdict.text = hypothesis_update.verdict_update]
    ELSE d

\* -- Timestamp --
update_timestamp(d) == [d EXCEPT !.date = now, !.lastRefreshed = now_iso]

\* the document _merge_updates makes of the copy d up to the point where
\* it reads the synthesis payload
merged_before_synthesis(d, gathered, evidence_update) ==
    [price_update(d, gathered.price_data) EXCEPT
        !.cards = update_cards(d.cards, evidence_update.cards)]

\* the document _merge_updates makes of the copy d when it returns
merged(d, gathered, evidence_update, hypothesis_update) ==
    update_timestamp(
      update_verdict(
        update_narrative(
          update_hero(
            update_hypotheses(
              merged_before_synthesis(d, gathered, evidence_update),
              hypothesis_update.hypotheses),
            hypothesis_update),
          gathered.price_data, hypothesis_update),
        hypothesis_update))

\* gathered["price_data"]: the error marker, or the quote fetch_yahoo_price
\* returns (a history h that may be empty, a currency c)
PriceError ==
    [error |-> TRUE, price |-> "0", currency |-> "A$", low_52w |-> "0",
     high_52w |-> "0", price_history |-> <<>>]

PriceQuote(c, h) ==
    [error |-> FALSE, price |-> "12.5", currency |-> c, low_52w |-> "9.0",
     high_52w |-> "15.25", price_history |-> h]

\* gathered.get("price_data", {}) of gathered data without price data
PriceAbsent ==
    [error |-> FALSE, price |-> Absent, currency |-> Absent, low_52w |-> Absent,
     high_52w |-> Absent, price_history |-> <<>>]

Gathered ==
    {[price_data |-> p] :
        p \in {PriceError, PriceQuote("A$", <<"2026-02-28 12.5">>),
               PriceQuote("US$", <<"2026-02-28 12.5">>), PriceQuote("A$", <<>>)}}

\* an entry of evidence_update["cards"]
EvidenceCard(n, m, f, x) ==
    [number |-> n, material_change |-> m, updated_finding |-> f,
     updated_tension |-> x]

EvidenceCards ==
    {EvidenceCard(n, m, f, x) :
        n \in {1, 2, 9}, m \in BOOLEAN, f \in {Absent, "f-new"},
        x \in {Absent, "", "x-new"}}

\* evidence_update.get("cards", []) of {} and of the update of the except
\* block of stage 2
NoCards == [cards |-> <<>>]

EvidenceUpdates ==
    {NoCards}
    \cup {[cards |-> <<c>>] : c \in EvidenceCards}
    \cup {[cards |-> <<EvidenceCard(1, TRUE, "f-new", "x-new"),
                       EvidenceCard(2, TRUE, "f-other", Absent)>>],
          [cards |-> <<EvidenceCard(1, FALSE, "f-new", "x-new"),
                       EvidenceCard(9, TRUE, "f-other", "x-other")>>]}

\* an entry of hypothesis_update["hypotheses"]
HypothesisEntry(t, s, d, dir) ==
    [tier |-> t, updated_score |-> s, updated_description |-> d, direction |-> dir]

HypothesisEntries ==
    {HypothesisEntry(t, s, d, dir) :
        t \in {"T1", "t2", "T3", "T2x"}, s \in {Absent, "", "55%"},
        d \in {Absent, "d-new"}, dir \in {Absent, "up", "sideways"}}

\* the synthesis payload {}
EmptySynthesis ==
    [is_dict |-> TRUE, hypotheses |-> <<>>, narrative_rewrite |-> Absent,
     narrative_update |-> Absent, embedded_thesis |-> Absent,
     skew_description |-> Absent, next_decision_point |-> Absent,
     price_implication |-> Absent, evidence_check |-> Absent,
     narrative_stability |-> Absent, verdict_update |-> Absent]

SynthesisUpdates ==
    {EmptySynthesis}
    \cup {[EmptySynthesis EXCEPT !.hypotheses = <<e>>] : e \in HypothesisEntries}
    \cup {[EmptySynthesis EXCEPT !.hypotheses = q] :
             q \in {<<HypothesisEntry("T1", "55%", Absent, "down"),
                      HypothesisEntry("T2", "45%", "d-new", "up")>>,
                    <<HypothesisEntry("T1", "55%", Absent, "down"),
                      HypothesisEntry("t1", "50%", Absent, "up")>>}}
    \cup {[EmptySynthesis EXCEPT !.narrative_rewrite = r, !.narrative_update = u] :
             r \in {Absent, "", "rewrite"}, u \in {Absent, "", "update"}}
    \* a full payload, the payload of the except block of stage 3, and a
    \* JSON value that is no object
    \cup {[is_dict |-> TRUE,
           hypotheses |-> <<HypothesisEntry("T2", "65%", "d-new", "up")>>,
           narrative_rewrite |-> "rewrite", narrative_update |-> Absent,
           embedded_thesis |-> "e-new", skew_description |-> "s-new",
           next_decision_point |-> "ndp-new", price_implication |-> "pi-new",
           evidence_check |-> "ec-new", narrative_stability |-> "ns-new",
           verdict_update |-> "v-new"],
          [EmptySynthesis EXCEPT !.narrative_update = "Synthesis unavailable"],
          [EmptySynthesis EXCEPT !.is_dict = FALSE]}

\* the inputs of _merge_updates explored: every evidence update with the
\* empty synthesis payload, and every synthesis payload with no cards
MergeInputs ==
    {[gathered |-> g, evidence_update |-> e, hypothesis_update |-> EmptySynthesis] :
        g \in Gathered, e \in EvidenceUpdates}
    \cup {[gathered |-> g, evidence_update |-> NoCards, hypothesis_update |-> h] :
             g \in Gathered, h \in SynthesisUpdates}

\* Python objects.  heap is the sequence of the dict objects allocated; a
\* document in memory is a reference: the address of the dict itself (its
\* keys: price, currency, priceHistory, date, _lastRefreshed are assigned in
\* the dict) and the address of the lists and dicts it holds (hero metrics,
\* cards, hypotheses, verdict, hero, narrative are changed in place).
NoRef == [top |-> 0, nested |-> 0]

TopKeys == {"price", "currency", "priceHistory", "date", "lastRefreshed"}

\* the document a reference stands for
View(h, r) ==
    [k \in DOMAIN h[r.top] |-> IF k \in TopKeys THEN h[r.top][k] ELSE h[r.nested][k]]

\* the heap after the assignments that make the document of r equal to d
Store(h, r, d) ==
    LET h1 == [h EXCEPT ![r.top] =
                  [k \in DOMAIN d |-> IF k \in TopKeys THEN d[k] ELSE h[r.top][k]]]
    IN [h1 EXCEPT ![r.nested] =
           [k \in DOMAIN d |-> IF k \in TopKeys THEN h1[r.nested][k] ELSE d[k]]]

\* json.load(f): a new object
json_load(h, d) ==
    [heap |-> Append(h, d), ref |-> [top |-> Len(h) + 1, nested |-> Len(h) + 1]]

\* dict(research): a new dict that holds the lists and dicts of the old one
copy(h, r) ==
    [heap |-> Append(h, View(h, r)), ref |-> [top |-> Len(h) + 1, nested |-> r.nested]]

\* deepcopy(research): a new dict with copies of all it holds
deepcopy(h, r) ==
    [heap |-> Append(h, View(h, r)), ref |-> [top |-> Len(h) + 1, nested |-> Len(h) + 1]]

\* _merge_updates(research, gathered, evidence_update, hypothesis_update):
\* the heap it leaves, the reference it returns, or the exception of
\* price_data['price'] on price data without price, or of
\* hypothesis_update.get on a payload that is no dict
merge_updates(h, r, gathered, evidence_update, hypothesis_update) ==
    LET c == deepcopy(h, r)
        d == View(c.heap, c.ref)
    IN IF price_raises(d, gathered.price_data)
       THEN [raised |-> TRUE, ref |-> NoRef,
             heap |-> Store(c.heap, c.ref,
                            [d EXCEPT !.price = str(Get(gathered.price_data.price, @)),
                                      !.currency = Get(gathered.price_data.currency,
                                                       "A$")])]
       ELSE IF merge_accepts(evidence_update, hypothesis_update)
       THEN [raised |-> FALSE, ref |-> c.ref,
             heap |-> Store(c.heap, c.ref,
                            merged(d, gathered, evidence_update, hypothesis_update))]
       ELSE [raised |-> TRUE, ref |-> NoRef,
             heap |-> Store(c.heap, c.ref,
                            merged_before_synthesis(d, gathered, evidence_update))]

\* the research file: its JSON text is whole, or the file is open for
\* writing and holds nothing yet ("empty") or the first part of the new
\* text ("partial")
WholeFile(d) == [doc |-> d, state |-> "whole"]

NoServed == [by |-> "none", state |-> "none", doc |-> DocFull]

\* research = _load_research(ticker)
LoadResearch ==
    /\ mPc = "load"
    /\ heap' = json_load(heap, disk.doc).heap
    /\ research' = json_load(heap, disk.doc).ref
    /\ mPc' = "merge"
    /\ UNCHANGED <<call, orchestration, index, disk, inputs, updated, served>>

\* updated_research = _merge_updates(research, gathered, evidence_update,
\*                                   hypothesis_update)
MergeUpdates ==
    /\ mPc = "merge"
    /\ LET r == merge_updates(heap, research, inputs.gathered,
                              inputs.evidence_update, inputs.hypothesis_update)
       IN /\ heap' = r.heap
          /\ updated' = r.ref
          /\ mPc' = IF r.raised THEN "failed" ELSE "save_open"
    /\ UNCHANGED <<call, orchestration, index, disk, research, inputs, served>>

\* _save_research: with open(path, "w") as f: the file is truncated
SaveOpen ==
    /\ mPc = "save_open"
    /\ disk' = [disk EXCEPT !.state = "empty"]
    /\ mPc' = "save_dump"
    /\ UNCHANGED <<call, orchestration, index, heap, research, inputs, updated, served>>

\* _save_research: json.dump(data, f, ...): the text is written through the
\* buffer of f, which may or may not have been flushed before f is closed
SaveDump ==
    /\ mPc = "save_dump"
    /\ \E flushed \in BOOLEAN :
           disk' = IF flushed
                   THEN [doc |-> View(heap, updated), state |-> "partial"]
                   ELSE disk
    /\ mPc' = "save_close"
    /\ UNCHANGED <<call, orchestration, index, heap, research, inputs, updated, served>>

\* _save_research: the end of the with block closes f
SaveClose ==
    /\ mPc = "save_close"
    /\ disk' = WholeFile(View(heap, updated))
    /\ mPc' = "index"
    /\ UNCHANGED <<call, orchestration, index, heap, research, inputs, updated, served>>

\* _index.json: there is no such file, its text is no JSON (or its entries
\* are no objects), or it lists entries: the entry of the ticker is the one
\* written before this refresh ("stale"), the one of the saved document
\* ("current"), or there is none ("unlisted"); "truncated" is the file a
\* failed write leaves.  failed: an update of the index
\* has met an exception.
IndexFiles ==
    {[file |-> f, failed |-> FALSE] : f \in {"absent", "corrupt", "stale", "unlisted"}}

\* _update_index that lets the exception of the index update out
update_index_raising(i, write_fails) ==
    IF i.file = "absent" THEN [raised |-> FALSE, index |-> i]
    ELSE IF i.file = "corrupt"
    THEN [raised |-> TRUE, index |-> [i EXCEPT !.failed = TRUE]]
    ELSE IF write_fails
    THEN [raised |-> TRUE, index |-> [file |-> "truncated", failed |-> TRUE]]
    ELSE [raised |-> FALSE,
          index |-> [i EXCEPT !.file = IF @ = "stale" THEN "current" ELSE @]]

\* _update_index(ticker, data): returns if there is no index file; reads the
\* index, updates the entry of the ticker and writes the index back; an
\* exception of any of these is caught and logged
update_index(i, write_fails) ==
    IF i.file = "absent" THEN [raised |-> FALSE, index |-> i]
    ELSE IF i.file = "corrupt"
    THEN [raised |-> FALSE, index |-> [i EXCEPT !.failed = TRUE]]
    ELSE IF write_fails
    THEN [raised |-> FALSE, index |-> [file |-> "truncated", failed |-> TRUE]]
    ELSE [raised |-> FALSE,
          index |-> [i EXCEPT !.file = IF @ = "stale" THEN "current" ELSE @]]

\* _update_index(ticker, updated_research), then job.status = "completed",
\* job.stage_index = 5, job.completed_at = time.time(); an exception of
\* _update_index would end the job in the except block of run_refresh
UpdateIndex ==
    /\ mPc = "index"
    /\ \E write_fails \in BOOLEAN :
           LET r == update_index(index, write_fails) IN
           /\ index' = r.index
           /\ mPc' = IF r.raised THEN "failed" ELSE "completed"
    /\ UNCHANGED <<call, orchestration, disk, heap, research, inputs, updated, served>>

\* job.result = updated_research
SetResult ==
    /\ mPc = "completed"
    /\ mPc' = "done"
    /\ UNCHANGED <<call, orchestration, index, disk, heap, research, inputs, updated, served>>

\* GET /data/research/{ticker}.json (serve_data, _serve_file) where the data
\* directory served is the one _save_research writes: the file as it is on
\* disk
ServeData ==
    /\ mPc \notin {"none", "load"}
    /\ served' = [by |-> "serve_data", state |-> disk.state, doc |-> disk.doc]
    /\ served' # served
    /\ UNCHANGED <<call, orchestration, index, disk, heap, research, inputs, updated, mPc>>

\* GET /api/refresh/{ticker}/result while the job is completed and has no
\* result yet: json.load of the file (a text that is not whole raises)
ResultFallback ==
    /\ mPc = "completed"
    /\ served' = [by |-> "refresh_result",
                  state |-> IF disk.state = "whole" THEN "whole" ELSE "error",
                  doc |-> disk.doc]
    /\ served' # served
    /\ UNCHANGED <<call, orchestration, index, disk, heap, research, inputs, updated, mPc>>

-----------------------------------------------------------------------------
(* The completion client in detail: the attempts of one gemini_completion   *)
(* call (json_mode=True).                                                   *)

\* the largest max_retries explored
MaxRetries == 3

\* what an attempt can fail with: json.loads raises JSONDecodeError, or
\* generate_content raises an error whose text names a rate limit or quota,
\* a 500 / 503, or neither
Failures == {"invalid_json", "rate_limit", "server_error", "other_error"}

\* no call is being made
NoCall ==
    [pc |-> "none", max_retries |-> 0, attempt |-> 0, made |-> 0,
     failures |-> <<>>, last_error |-> "none", raised |-> "none"]

\* the call at `for attempt in range(max_retries + 1):`
NewCall(n) == [NoCall EXCEPT !.pc = "loop", !.max_retries = n]

\* `continue`, or the end of the loop body: the next value of attempt
Continue(c) == [c EXCEPT !.pc = "loop", !.attempt = @ + 1]

\* the loop that goes on after the last value of range(max_retries + 1)
GenerateContent_unbounded ==
    /\ call.pc = "loop" /\ call.attempt <= call.max_retries + 1
    /\ \E o \in Failures \cup {"json"} :
           call' = IF o = "json"
                   THEN [call EXCEPT !.pc = "returned", !.made = @ + 1]
                   ELSE [call EXCEPT !.pc = "except", !.made = @ + 1,
                                     !.failures = Append(@, o), !.last_error = o]
    /\ UNCHANGED <<orchestration, stage4>>

\* response = client.models.generate_content(...); return json.loads(text):
\* the value is returned, or an exception is raised and caught
GenerateContent ==
    /\ call.pc = "loop" /\ call.attempt <= call.max_retries
    /\ \E o \in Failures \cup {"json"} :
           call' = IF o = "json"
                   THEN [call EXCEPT !.pc = "returned", !.made = @ + 1]
                   ELSE [call EXCEPT !.pc = "except", !.made = @ + 1,
                                     !.failures = Append(@, o), !.last_error = o]
    /\ UNCHANGED <<orchestration, stage4>>

\* except json.JSONDecodeError: continue, or ValueError after the last attempt
ExceptJSONDecodeError ==
    /\ call.pc = "except" /\ call.last_error = "invalid_json"
    /\ call' = IF call.attempt < call.max_retries
               THEN Continue(call)
               ELSE [call EXCEPT !.pc = "raised", !.raised = "ValueError"]
    /\ UNCHANGED <<orchestration, stage4>>

\* except Exception, rate limit or quota: sleep and continue
ExceptRateLimit ==
    /\ call.pc = "except" /\ call.last_error = "rate_limit"
    /\ call' = Continue(call)
    /\ UNCHANGED <<orchestration, stage4>>

\* except Exception, 500 or 503: sleep and continue
ExceptServerError ==
    /\ call.pc = "except" /\ call.last_error = "server_error"
    /\ call' = Continue(call)
    /\ UNCHANGED <<orchestration, stage4>>

\* except Exception, any other error: sleep and go on with the loop, or
\* re-raise the error in the last attempt
ExceptOther ==
    /\ call.pc = "except" /\ call.last_error = "other_error"
    /\ call' = IF call.attempt < call.max_retries
               THEN Continue(call)
               ELSE [call EXCEPT !.pc = "raised", !.raised = "other_error"]
    /\ UNCHANGED <<orchestration, stage4>>

\* the loop is used up: raise RuntimeError(... {last_error})
LoopExhausted ==
    /\ call.pc = "loop" /\ call.attempt > call.max_retries
    /\ call' = [call EXCEPT !.pc = "raised", !.raised = "RuntimeError"]
    /\ UNCHANGED <<orchestration, stage4>>

-----------------------------------------------------------------------------

\* The workloads explored.  A workload fixes the research files present
\* (docs), how many single refreshes are requested (singles), the bodies the
\* batch requests may carry (bodies; none: no such request) and the tickers
\* whose stages 2-4 may raise (flaky).
Workload(d, n, req, f) ==
    [docs |-> d, singles |-> n, flaky |-> f, key |-> TRUE, outcomes |-> {"object"},
     bodies |-> [b \in Batches |-> IF b <= Len(req) THEN req[b] ELSE {}]]

\* the workload w with the completion calls coming to any of outs, with or
\* without (key) an ANTHROPIC_API_KEY
WithCalls(w, key, outs) == [w EXCEPT !.key = key, !.outcomes = outs]

Workloads ==
    \* one batch of any tickers, every stage may raise
    {Workload(d, 0, <<RequestBodies>>, Tickers) : d \in {Tickers, Tickers \ {2}}}
    \* two or three batch requests, possibly overlapping in time
    \cup {Workload(Tickers, 0, <<{{1, 2, 3}}, {{4}}>>, {}),
          Workload(Tickers, 0, <<{{}}, {{1}}>>, {}),
          Workload(Tickers, 0, <<{{1}}, {{2}}, {{3}}>>, {})}
    \* single refreshes alone, and a single refresh with a batch
    \cup {Workload(d, MaxSingles, <<>>, Tickers) : d \in {Tickers, Tickers \ {2}}}
    \cup {Workload(Tickers, 1, <<{{1, 2}}>>, {1}),
          Workload(Tickers \ {2}, 1, <<{{2}}>>, {})}
    \* a single refresh, and a batch of two, with every outcome of the
    \* completion calls
    \cup {WithCalls(Workload(Tickers, 1, <<>>, {}), k, CallOutcomes) : k \in BOOLEAN}
    \cup {WithCalls(Workload(Tickers, 0, <<{{1, 2}}>>, {}), k, CallOutcomes) :
             k \in BOOLEAN}

\* the orchestration before any request
OrchestrationInit ==
    /\ docs = load.docs
    /\ refresh_jobs = [t \in Tickers |-> NoJob]
    /\ sResp = [s \in Singles |-> NoResp]
    /\ sPc = [s \in Singles |-> "none"]
    /\ sJob = [s \in Singles |-> NewJob]
    /\ hPc = [b \in Batches |-> "none"]
    /\ batch_jobs = [b \in Batches |-> NoBatch]
    /\ bPc = [b \in Batches |-> "none"]
    /\ tPc = [b \in Batches |-> [t \in Tickers |-> "none"]]
    /\ tJob = [b \in Batches |-> [t \in Tickers |-> NewJob]]
    /\ fault = [b \in Batches |-> [t \in Tickers |-> "none"]]
    /\ tRun = [b \in Batches |-> [t \in Tickers |-> NoRun]]
    /\ sFault = [s \in Singles |-> "none"]
    /\ sRun = [s \in Singles |-> NoRun]
    /\ saved = {}
    /\ ready = [b \in Batches |-> <<>>]
    /\ stalled = [b \in Batches |-> <<>>]
    /\ cur = [b \in Batches |-> 0]
    /\ gather_sem = NewSem
    /\ batch_sem = NewSem

Init ==
    /\ load \in Workloads
    /\ OrchestrationInit
    /\ disk = WholeFile(DocFull)
    /\ heap = <<>>
    /\ research = NoRef
    /\ inputs = [gathered |-> [price_data |-> PriceError],
                 evidence_update |-> NoCards, hypothesis_update |-> EmptySynthesis]
    /\ updated = NoRef
    /\ mPc = "none"
    /\ served = NoServed
    /\ index = [file |-> "absent", failed |-> FALSE]
    /\ call = NoCall

Next ==
    \/ \E s \in Singles, t \in Tickers : trigger_refresh(s, t)
    \/ \E s \in Singles : SingleCreate(s)
    \/ \E s \in Singles : SingleLoad(s)
    \/ \E s \in Singles : SingleStep(s)
    \/ \E s \in Singles : SingleGather(s)
    \/ \E s \in Singles : SingleSpecialists(s)
    \/ \E s \in Singles : SingleSynthesis(s)
    \/ \E s \in Singles : SingleWriteResults(s)
    \/ \E b \in Batches : trigger_refresh_all_check(b)
    \/ \E b \in Batches, body \in RequestBodies : trigger_refresh_all_launch(b, body)
    \/ \E b \in Batches : BatchCreate(b)
    \/ \E b \in Batches : BatchInitEntry(b)
    \/ \E b \in Batches : BatchLaunch(b)
    \/ \E b \in Batches : BatchGathered(b)
    \/ \E b \in Batches : BatchFinalize(b)
    \/ \E b \in Batches : LoopPick(b)
    \/ \E b \in Batches, t \in Tickers : TaskCreate(b, t)
    \/ \E b \in Batches, t \in Tickers : TaskSnapshot(b, t)
    \/ \E b \in Batches, t \in Tickers : TaskLoad(b, t)
    \/ \E b \in Batches, t \in Tickers : TaskWrite(b, t)
    \/ \E b \in Batches, t \in Tickers : TaskAcquireGather(b, t)
    \/ \E b \in Batches, t \in Tickers : TaskResumeGather(b, t)
    \/ \E b \in Batches, t \in Tickers : TaskGatherCall(b, t)
    \/ \E b \in Batches, t \in Tickers : GatherReturns(b, t)
    \/ \E b \in Batches, t \in Tickers : TaskReleaseGather(b, t)
    \/ \E b \in Batches, t \in Tickers : TaskAcquireLLM(b, t)
    \/ \E b \in Batches, t \in Tickers : TaskResumeLLM(b, t)
    \/ \E b \in Batches, t \in Tickers : TaskSpecialists(b, t)
    \/ \E b \in Batches, t \in Tickers : TaskSynthesis(b, t)
    \/ \E b \in Batches, t \in Tickers : TaskWriteResults(b, t)
    \/ \E b \in Batches, t \in Tickers : TaskRecordError(b, t)

Spec == Init /\ [][Next]_vars

\* Stage 4 of one pipeline execution in detail, for every document and
\* every input of the merge, with the readers of the research file
MergeInit ==
    /\ load = Workload(Tickers, 0, <<>>, {})
    /\ OrchestrationInit
    /\ disk \in {WholeFile(d) : d \in Documents}
    /\ heap = <<>>
    /\ research = NoRef
    /\ inputs \in MergeInputs
    /\ updated = NoRef
    /\ mPc = "load"
    /\ served = NoServed
    /\ index \in IndexFiles
    /\ call = NoCall

MergeNext ==
    \/ LoadResearch
    \/ MergeUpdates
    \/ SaveOpen
    \/ SaveDump
    \/ SaveClose
    \/ UpdateIndex
    \/ SetResult
    \/ ServeData
    \/ ResultFallback

MergeSpec == MergeInit /\ [][MergeNext]_vars

\* Stage 4 of one pipeline execution on documents and payloads with absent
\* sections: a document with or without metric rows, verdict, hero and
\* narrative; gathered data with a quote, the error marker or no price data;
\* an evidence update with or without cards; a synthesis payload that is
\* {} or supplies every section.
SectionInputs ==
    {[gathered |-> [price_data |-> p], evidence_update |-> e, hypothesis_update |-> h] :
        p \in {PriceAbsent, PriceError, PriceQuote("A$", <<"2026-02-28 12.5">>)},
        e \in {NoCards, [cards |-> <<EvidenceCard(1, TRUE, "f-new", "x-new")>>]},
        h \in {EmptySynthesis,
               [is_dict |-> TRUE,
                hypotheses |-> <<HypothesisEntry("T2", "65%", "d-new", "up")>>,
                narrative_rewrite |-> "rewrite", narrative_update |-> Absent,
                embedded_thesis |-> "e-new", skew_description |-> "s-new",
                next_decision_point |-> "ndp-new", price_implication |-> "pi-new",
                evidence_check |-> "ec-new", narrative_stability |-> "ns-new",
                verdict_update |-> "v-new"]}}

SectionsInit ==
    /\ load = Workload(Tickers, 0, <<>>, {})
    /\ OrchestrationInit
    /\ disk \in {WholeFile(d) : d \in Documents}
    /\ heap = <<>>
    /\ research = NoRef
    /\ inputs \in SectionInputs
    /\ updated = NoRef
    /\ mPc = "load"
    /\ served = NoServed
    /\ index \in IndexFiles
    /\ call = NoCall

SectionsSpec == SectionsInit /\ [][MergeNext]_vars

\* One gemini_completion call with any max_retries up to MaxRetries, whose
\* attempts fail in any way.
CompletionInit ==
    /\ load = Workload(Tickers, 0, <<>>, {})
    /\ OrchestrationInit
    /\ disk = WholeFile(DocFull)
    /\ heap = <<>>
    /\ research = NoRef
    /\ inputs = [gathered |-> [price_data |-> PriceError],
                 evidence_update |-> NoCards, hypothesis_update |-> EmptySynthesis]
    /\ updated = NoRef
    /\ mPc = "none"
    /\ served = NoServed
    /\ index = [file |-> "absent", failed |-> FALSE]
    /\ call \in {NewCall(n) : n \in 0..MaxRetries}

CompletionNext ==
    \/ GenerateContent
    \/ ExceptJSONDecodeError
    \/ ExceptRateLimit
    \/ ExceptServerError
    \/ ExceptOther
    \/ LoopExhausted

CompletionSpec == CompletionInit /\ [][CompletionNext]_vars

-----------------------------------------------------------------------------
(* What the properties below speak of                                       *)

\* the terminal statuses of a batch
TerminalBatch == {"completed", "failed", "partially_failed"}

\* the task of ticker t in batch b has created its RefreshJob
TaskStarted(b, t) ==
    t \in batch_jobs[b].tickers /\ tPc[b][t] \notin {"none", "create"}

\* the entities of batch b whose own RefreshJob has a status in S
JobsWithStatus(b, S) ==
    {t \in Tickers : TaskStarted(b, t) /\ tJob[b][t].status \in S}

\* the entities of batch b whose per-entity entry has a status in S
EntriesWithStatus(b, S) ==
    {t \in batch_jobs[b].tickers : entry_of(batch_jobs[b], t).status \in S}

\* the task of ticker t in batch b has a permit of the semaphore
Holds(sem, b, t) == <<b, t>> \in sem.held

-----------------------------------------------------------------------------
\* C1: of the entities of a batch, at most GatherPermits (3) have the status
\* gathering_data at any time, in their RefreshJob and in the batch's
\* per-entity status.
C1_GatheringWithinPool ==
    \A b \in Batches :
        /\ Cardinality(JobsWithStatus(b, {"gathering_data"})) <= GatherPermits
        /\ Cardinality(EntriesWithStatus(b, {"gathering_data"})) <= GatherPermits

\* C2: an entity never holds a gather permit and an LLM permit together; it
\* holds neither while its status is writing_results, completed or failed,
\* also after a stage raised while it held a permit; a finalized batch holds
\* no permit, and with no batch in flight all the permits are free.
C2_PermitsReleased ==
    /\ \A b \in Batches, t \in Tickers :
           ~(Holds(gather_sem, b, t) /\ Holds(batch_sem, b, t))
    /\ \A b \in Batches, t \in Tickers :
           (TaskStarted(b, t)
              /\ tJob[b][t].status \in {"writing_results", "completed", "failed"})
           => ~Holds(gather_sem, b, t) /\ ~Holds(batch_sem, b, t)
    /\ \A b \in Batches, t \in Tickers :
           bPc[b] = "done" => ~Holds(gather_sem, b, t) /\ ~Holds(batch_sem, b, t)
    /\ (\A b \in Batches : bPc[b] \in {"none", "done"})
           => gather_sem.held = {} /\ batch_sem.held = {}

\* a stage raised while the task held the LLM permit; the batch is finalized
C2_Witness ==
    \E b \in Batches, t \in Tickers :
        /\ fault[b][t] = "stage2_error"
        /\ tJob[b][t].status = "failed"
        /\ bPc[b] = "done"
        /\ Cardinality(batch_jobs[b].tickers) > 1

\* C3: of the entities of a batch, at most BatchPermits (2) have the status
\* specialist_analysis or hypothesis_synthesis at any time, in their
\* RefreshJob and in the batch's per-entity status.
C3_LLMStagesWithinPool ==
    \A b \in Batches :
        /\ Cardinality(JobsWithStatus(b,
               {"specialist_analysis", "hypothesis_synthesis"})) <= BatchPermits
        /\ Cardinality(EntriesWithStatus(b,
               {"specialist_analysis", "hypothesis_synthesis"})) <= BatchPermits

\* an entity of a batch of more than BatchPermits entities is in stage 3
\* while the data of another one has arrived
C3_Witness ==
    \E b \in Batches, t \in Tickers :
        /\ Cardinality(batch_jobs[b].tickers) > BatchPermits
        /\ TaskStarted(b, t)
        /\ tJob[b][t].status = "hypothesis_synthesis"
        /\ entry_of(batch_jobs[b], t).status = "hypothesis_synthesis"
        /\ Holds(batch_sem, b, t)
        /\ \E u \in batch_jobs[b].tickers : u # t /\ tPc[b][u] = "g_release"

\* C4: the counts queued, in_progress, completed and failed a batch reports
\* are non-negative, each is the number of entities whose per-entity status
\* is in that state, and they sum to the number of entities of the batch.
C4_CountsPartition ==
    \A b \in Batches :
        batch_jobs[b].status # "none" =>
            LET bj == batch_jobs[b] IN
            /\ total_queued(bj) >= 0
            /\ total_in_progress(bj) >= 0
            /\ total_completed(bj) >= 0
            /\ total_failed(bj) >= 0
            /\ total_queued(bj) = Cardinality(EntriesWithStatus(b, {"queued"}))
            /\ total_in_progress(bj) = Cardinality(EntriesWithStatus(b,
                  {"gathering_data", "specialist_analysis",
                   "hypothesis_synthesis", "writing_results"}))
            /\ total_completed(bj) = Cardinality(EntriesWithStatus(b, {"completed"}))
            /\ total_failed(bj) = Cardinality(EntriesWithStatus(b, {"failed"}))
            /\ total_queued(bj) + total_in_progress(bj) + total_completed(bj)
                  + total_failed(bj) = Cardinality(bj.tickers)

\* a running batch with queued, in-progress and failed entities at once
C4_Witness ==
    \E b \in Batches :
        /\ bPc[b] = "wait"
        /\ total_queued(batch_jobs[b]) > 0
        /\ total_in_progress(batch_jobs[b]) > 0
        /\ total_failed(batch_jobs[b]) > 0

\* C5: the status of a batch is terminal only if the per-entity status of
\* every entity of the batch is completed or failed; as long as some entity
\* is not terminal the status of the batch reads in_progress.
C5_TerminalOnlyWhenAllTerminal ==
    \A b \in Batches :
        batch_jobs[b].status # "none" =>
            /\ batch_jobs[b].status \in TerminalBatch =>
                   EntriesWithStatus(b, {"completed", "failed"})
                       = batch_jobs[b].tickers
            /\ EntriesWithStatus(b, {"completed", "failed"}) # batch_jobs[b].tickers
                   => batch_jobs[b].status = "in_progress"

\* a batch of several entities has reached a terminal status
C5_Witness ==
    \E b \in Batches :
        /\ batch_jobs[b].status \in TerminalBatch
        /\ Cardinality(batch_jobs[b].tickers) >= 3

C7_FailureIsolated ==
    \A b \in Batches :
        bPc[b] = "done" =>
            /\ \A t \in batch_jobs[b].tickers :
                   IF fault[b][t] = "none"
                   THEN /\ tJob[b][t].status = "completed"
                        /\ entry_of(batch_jobs[b], t).status = "completed"
                        /\ t \notin DOMAIN batch_jobs[b].errors
                   ELSE /\ tJob[b][t].status = "failed"
                        /\ entry_of(batch_jobs[b], t).status = "failed"
                        /\ t \in DOMAIN batch_jobs[b].errors
                        /\ batch_jobs[b].errors[t] = fault[b][t]
            /\ ((\E t \in batch_jobs[b].tickers : fault[b][t] = "none")
                  /\ (\E t \in batch_jobs[b].tickers : fault[b][t] # "none"))
               => batch_jobs[b].status = "partially_failed"

\* the batch [1, 2, 3] where 2 has no research file is finalized
C7_Witness ==
    \E b \in Batches :
        /\ bPc[b] = "done"
        /\ batch_jobs[b].tickers = {1, 2, 3}
        /\ fault[b][2] = "not_found"
        /\ batch_jobs[b].errors[2] = "not_found"
        /\ tJob[b][1].status = "completed" /\ tJob[b][3].status = "completed"
        /\ batch_jobs[b].status = "partially_failed"

\* a batch whose run_batch_refresh has started and not returned
BatchInFlight(b) == bPc[b] \notin {"none", "done"}

\* a step of some pipeline, task, coordinator or pending external call:
\* every step but the arrival of a new request
PipelineStep ==
    \/ \E s \in Singles : SingleCreate(s) \/ SingleLoad(s) \/ SingleStep(s)
                               \/ SingleGather(s) \/ SingleSpecialists(s)
                               \/ SingleSynthesis(s) \/ SingleWriteResults(s)
    \/ \E b \in Batches, body \in RequestBodies : trigger_refresh_all_launch(b, body)
    \/ \E b \in Batches : BatchCreate(b) \/ BatchInitEntry(b) \/ BatchLaunch(b)
                               \/ BatchGathered(b) \/ BatchFinalize(b) \/ LoopPick(b)
    \/ \E b \in Batches, t \in Tickers :
           \/ TaskCreate(b, t) \/ TaskSnapshot(b, t) \/ TaskLoad(b, t)
           \/ TaskWrite(b, t) \/ TaskAcquireGather(b, t) \/ TaskResumeGather(b, t)
           \/ TaskGatherCall(b, t) \/ GatherReturns(b, t) \/ TaskReleaseGather(b, t)
           \/ TaskAcquireLLM(b, t) \/ TaskResumeLLM(b, t) \/ TaskSpecialists(b, t)
           \/ TaskSynthesis(b, t) \/ TaskWriteResults(b, t) \/ TaskRecordError(b, t)

\* C8: a batch always terminates.  Every run of the system is finite, so a
\* batch terminates if and only if the system is never stuck with the batch
\* in flight: while a batch has not reached its terminal status, some
\* pipeline, task or pending external call can take a step (no deadlock on
\* the permit pools, no batch that stays in_progress forever).
C8_BatchTerminates ==
    \A b \in Batches : BatchInFlight(b) => ENABLED PipelineStep

C10_BatchRejectedWhileRunning ==
    [][\A b \in Batches :
          (hPc[b] = "none" /\ hPc'[b] = "body") =>
              ~is_batch_running /\ \A t \in Tickers : ~is_running(t)]_vars

\* the positions of a pipeline from the return of _load_research to the
\* return of _save_research
BetweenLoadAndSave ==
    {"acq_gather", "wait_gather", "g_status", "g_index", "g_snap", "g_call",
     "g_io", "g_release", "acq_llm", "wait_llm", "s_status", "s_index", "s_snap",
     "s_call", "h_status", "h_index", "h_snap", "h_call", "w_status", "w_index",
     "w_snap", "w_write"}

\* the pipeline executions that have loaded ticker t's document and have not
\* saved it yet
Writers(t) ==
    {SingleRef(s) : s \in {r \in Singles : sResp[r].ticker = t
                                             /\ sPc[r] \in BetweenLoadAndSave}}
    \cup {BatchRef(b, t) : b \in {c \in Batches : t \in batch_jobs[c].tickers
                                                  /\ tPc[c][t] \in BetweenLoadAndSave}}

\* C11: for every entity at most one pipeline execution, of all the single
\* refreshes and batches, is between loading and saving the entity's
\* document at any time.
C11_SingleWriter ==
    \A t \in Tickers : Cardinality(Writers(t)) <= 1

\* C12: at most one BatchRefreshJob is non-terminal at any time, also when
\* start_batch requests interleave at the suspension point of the handler.
C12_OneBatchAtATime ==
    Cardinality({b \in Batches :
                    batch_jobs[b].status \in {"queued", "in_progress"}}) <= 1

\* one step of a RefreshJob, from j to k, keeps stage_index and, unless the
\* job becomes or is failed, progress_pct from decreasing
JobMonotone(j, k) ==
    /\ k.stage_index >= j.stage_index
    /\ k.status # "failed" => progress_pct(k) >= progress_pct(j)

\* C13: over the lifetime of one RefreshJob, of a single refresh or of a
\* batch, stage_index never decreases and progress_pct never decreases
\* until the job reaches a terminal state.
C13_Monotone ==
    [][/\ \A s \in Singles : JobMonotone(sJob[s], sJob'[s])
       /\ \A b \in Batches, t \in Tickers : JobMonotone(tJob[b][t], tJob'[b][t])]_vars

\* a single refresh has completed at stage 5 and a batch entity has failed
\* in stage 2
C13_Witness ==
    \E s \in Singles, b \in Batches, t \in Tickers :
        /\ sPc[s] = "done"
        /\ sJob[s].status = "completed" /\ sJob[s].stage_index = 5
        /\ TaskStarted(b, t)
        /\ tJob[b][t].status = "failed" /\ tJob[b][t].stage_index = 2

\* the RefreshJob objects that exist: those the pipelines have created
AllJobs ==
    {sJob[s] : s \in {r \in Singles : sPc[r] \notin {"none", "create"}}}
    \cup {tJob[x[1]][x[2]] :
             x \in {y \in Batches \X Tickers : TaskStarted(y[1], y[2])}}
    \cup {NewJob}

\* C14: in every RefreshJob state, progress_pct is stage_index * 25 capped
\* at 100, it is 100 only when the status is completed and it is 0 when the
\* status is failed.
C14_ProgressDerivation ==
    \A job \in AllJobs :
        /\ job.status = "failed" => progress_pct(job) = 0
        /\ job.status \notin {"completed", "failed"}
              => progress_pct(job) = Min(job.stage_index * 25, 100)
        /\ progress_pct(job) = 100 => job.status = "completed"

\* one step of a RefreshJob, from j to k, keeps the status or moves it to
\* the next stage, or to failed from a status that is not terminal
StatusOrder(j, k) ==
    \/ k.status = j.status
    \/ <<j.status, k.status>> \in
          {<<"gathering_data", "specialist_analysis">>,
           <<"specialist_analysis", "hypothesis_synthesis">>,
           <<"hypothesis_synthesis", "writing_results">>,
           <<"writing_results", "completed">>}
    \/ k.status = "failed" /\ j.status \notin {"completed", "failed"}

\* C15: the status of a job visits gathering_data, specialist_analysis,
\* hypothesis_synthesis, writing_results, completed in that order, no stage
\* skipped, repeated or reordered, a failure only cutting the sequence
\* short; and the document is written before the job becomes completed.
C15_StagesInOrder ==
    /\ [](/\ \A s \in Singles :
               sJob[s].status = "completed" => SingleRef(s) \in saved
          /\ \A b \in Batches, t \in Tickers :
               tJob[b][t].status = "completed" => BatchRef(b, t) \in saved)
    /\ [][/\ \A s \in Singles : StatusOrder(sJob[s], sJob'[s])
          /\ \A b \in Batches, t \in Tickers :
                StatusOrder(tJob[b][t], tJob'[b][t])]_vars

\* a single refresh and a batch entity have written their documents and
\* are completed
C15_Witness ==
    \E s \in Singles, b \in Batches, t \in Tickers :
        /\ sJob[s].status = "completed" /\ SingleRef(s) \in saved
        /\ tJob[b][t].status = "completed" /\ BatchRef(b, t) \in saved

\* C16: a completed RefreshJob has stage_index 5, completed_at and result
\* set and error unset; a failed one has error and completed_at set and
\* result unset; a non-terminal one has completed_at, error and result unset.
C16_FieldSets ==
    \A job \in AllJobs :
        /\ job.status = "completed" =>
               /\ job.stage_index = 5 /\ job.completed_at /\ job.result
               /\ job.error = "none"
        /\ job.status = "failed" =>
               job.error # "none" /\ job.completed_at /\ ~job.result
        /\ job.status \notin {"completed", "failed"} =>
               ~job.completed_at /\ job.error = "none" /\ ~job.result

\* C17: a status or result poll, wherever it falls between the steps of
\* the pipeline that owns the job, never sees the status completed with
\* the result or completed_at unset or stage_index below 5, and never sees
\* the status failed with error unset.
C17_PollConsistent ==
    \A t \in Tickers :
        get_job(t) # NoJob =>
            LET seen == refresh_status(t).body IN
            /\ seen.status = "completed" =>
                   /\ seen.stage_index = 5 /\ seen.completed_at
                   /\ refresh_result(t).body = "result"
            /\ seen.status = "failed" =>
                   seen.error # "none" /\ refresh_result(t).body # "none"

\* the pipeline executions that have begun, each with its position, job,
\* exception and payloads
Executions ==
    {[pc |-> sPc[s], job |-> sJob[s], fault |-> sFault[s], run |-> sRun[s]] :
        s \in {r \in Singles : sPc[r] \notin {"none", "create"}}}
    \cup {[pc |-> tPc[x[1]][x[2]], job |-> tJob[x[1]][x[2]],
           fault |-> fault[x[1]][x[2]], run |-> tRun[x[1]][x[2]]] :
             x \in {y \in Batches \X Tickers : TaskStarted(y[1], y[2])}}

\* C18: if the completion call of stage 2 fails (it raises, or returns
\* text that is no JSON), stage 2 yields an empty card list with a failure
\* summary, the job is not marked failed for it, and synthesis still runs.
C18_ExtractionFailureDegrades ==
    \A e \in Executions :
        e.run.ev.out \in {"bad_json", "raises"} =>
            /\ e.run.ev.update = FailedEvidence
            /\ e.fault # "stage2_error"
            /\ e.job.status = "failed" =>
                   e.fault \in {"stage3_error", "merge_error", "write_error"}
            /\ e.pc = "done" => e.run.hyp.called # {} \/ e.fault = "stage3_error"

\* the stage 2 call of a pipeline raised and the pipeline has completed
\* with the payload of a synthesis that ran
C18_Witness ==
    \E e \in Executions :
        /\ e.run.ev.out = "raises"
        /\ e.run.ev.update.cards = "empty"
        /\ e.run.hyp.update = ModelSynthesis
        /\ e.pc = "done"
        /\ e.job.status = "completed"

\* C19: whatever the synthesis call comes to (an exception, invalid JSON,
\* valid JSON of any shape, from either provider), stage 4 receives a
\* payload the merge accepts: the synthesis alone never fails the job.
C19_SynthesisAlwaysAccepted ==
    \A e \in Executions :
        e.run.hyp.called # {} =>
            /\ merge_accepts(e.run.ev.update, e.run.hyp.update)
            /\ e.fault # "merge_error"
            /\ e.pc = "done" /\ e.fault = "none" => e.job.status = "completed"

\* C20: in synthesis, if the primary provider is unconfigured or its call
\* raises, the secondary provider is called; the degraded payload is
\* produced only when the secondary provider was tried as well.
C20_FallbackToSecondary ==
    \A e \in Executions :
        e.run.hyp.called # {} =>
            /\ e.run.hyp.primary \in {"unconfigured", "raises"}
                  => "gemini" \in e.run.hyp.called
            /\ e.run.hyp.update = DegradedSynthesis
                  => "gemini" \in e.run.hyp.called

\* C21: every completion call in a batch is a suspension point: while the
\* specialist or synthesis call of one entity is in flight, the loop of the
\* batch can run the tasks of the other entities that are ready to run (so
\* that two entities can be inside completion calls at the same time).
C21_LLMCallsSuspend ==
    \A b \in Batches, t \in Tickers :
        (Running(b, t) /\ tPc[b][t] \in {"s_call", "h_call"} /\ ready[b] # <<>>)
            => ENABLED LoopPick(b)

\* C22: every pipeline that has started for an entity, singly or in a batch,
\* reaches completed or failed.  Every run of the system is finite, so a
\* pipeline reaches its terminal status if and only if the system is never
\* stuck while the pipeline's RefreshJob is not terminal: some pipeline,
\* task or pending external call can take a step (no entity waits forever
\* for a permit).
C22_PipelinesTerminate ==
    \A e \in Executions :
        e.job.status \notin {"completed", "failed"} => ENABLED PipelineStep

-----------------------------------------------------------------------------
(* Properties of stage 4 in detail (MergeSpec)                              *)

\* _merge_updates has returned a document
Merged == updated # NoRef

\* the document _merge_updates was given, and the one it returned
InputDoc == View(heap, research)
MergedDoc == View(heap, updated)

\* the keys of a document on which the documents d and e differ
Changed(d, e) == {k \in DOMAIN d : d[k] # e[k]}

\* C23: merge never mutates its input: after the call of _merge_updates,
\* whether it returns or raises, and for every gathered data and update
\* payloads, the input document is equal, in all it holds, to its value
\* before the call; what it returns is another object.
C23_InputNotMutated ==
    [][mPc = "merge" =>
          /\ View(heap', research') = View(heap, research)
          /\ updated' # NoRef =>
                updated'.top # research.top /\ updated'.nested # research.nested]_vars

\* a merge has returned a document whose cards and timestamp
\* differ from those of its input
C23_Witness ==
    /\ Merged
    /\ {"cards", "date"} \subseteq Changed(InputDoc, MergedDoc)
    /\ InputDoc = DocFull

\* the merge was called with an empty evidence update and an empty
\* synthesis update
NoUpdate ==
    /\ inputs.evidence_update.cards = <<>>
    /\ inputs.hypothesis_update = EmptySynthesis

\* C24 as stated: merging a document with an empty evidence update and an
\* empty synthesis update changes only the timestamp fields date and
\* _lastRefreshed, whatever the gathered data is.
C24_OnlyTimestampsChange ==
    (Merged /\ NoUpdate) =>
        Changed(InputDoc, MergedDoc) \subseteq {"date", "lastRefreshed"}

\* C24: merging a document with an empty evidence update and an empty
\* synthesis update never changes the hypotheses, the evidence cards, the
\* hero, verdict or narrative content: it changes the timestamp fields and,
\* when the gathered price data is error-free, the price fields (price,
\* currency, hero metrics, price history) only.
C24_NoUpdateKeepsContent ==
    (Merged /\ NoUpdate) =>
        /\ Changed(InputDoc, MergedDoc) \subseteq
              {"date", "lastRefreshed"} \cup
              (IF inputs.gathered.price_data.error THEN {}
               ELSE {"price", "currency", "heroMetrics", "priceHistory"})
        /\ MergedDoc.date = now /\ MergedDoc.lastRefreshed = now_iso

\* a merge with no update and an error-free quote has returned: the
\* timestamps and the price have changed
C24_Witness ==
    /\ Merged /\ NoUpdate
    /\ ~inputs.gathered.price_data.error
    /\ InputDoc = DocFull
    /\ {"date", "lastRefreshed", "price"} \subseteq Changed(InputDoc, MergedDoc)

\* the price-related fields of a document: price, currency, price history
\* and the metric rows with a price label or the 52-week-range label
PriceLabels == {"Price", "Share Price", "Current Price", "52-Week Range"}

PriceFields(d) ==
    [price |-> d.price, currency |-> d.currency, priceHistory |-> d.priceHistory,
     rows |-> [i \in {j \in DOMAIN d.heroMetrics : d.heroMetrics[j].label \in PriceLabels}
                  |-> d.heroMetrics[i].value]]

\* the price fields of the merged document, price history apart, are those
\* of the gathered quote; the other metric rows are those of the input
PriceOverwritten ==
    LET q == inputs.gathered.price_data IN
    /\ MergedDoc.price = q.price
    /\ MergedDoc.currency = q.currency
    /\ Len(MergedDoc.heroMetrics) = Len(InputDoc.heroMetrics)
    /\ \A i \in DOMAIN InputDoc.heroMetrics :
          LET m == MergedDoc.heroMetrics[i] IN
          /\ m.label = InputDoc.heroMetrics[i].label
          /\ m.label \in {"Price", "Share Price", "Current Price"}
                => m.value = <<"A$", "12.50">>
          /\ m.label = "52-Week Range"
                => m.value = <<"A$", "9.00", " - A$", "15.25">>
          /\ m.label \notin PriceLabels => m = InputDoc.heroMetrics[i]

\* C25 as stated: when the gathered price data is an error marker, every
\* price-related field of the merged document equals its value in the
\* input; when it is error-free, every price-related field, the price
\* history included, is overwritten from the gathered data.
C25_PriceFieldsFollowGather ==
    Merged =>
        IF inputs.gathered.price_data.error
        THEN PriceFields(MergedDoc) = PriceFields(InputDoc)
        ELSE /\ PriceOverwritten
             /\ MergedDoc.priceHistory = inputs.gathered.price_data.price_history

\* C25: when the gathered price data is an error marker, every
\* price-related field of the merged document equals its value in the
\* input; when it is error-free, price, currency and the price-labelled and
\* 52-week-range metric rows are overwritten from the gathered data, and
\* the price history is overwritten when the gathered history is not empty
\* and kept otherwise.
C25_PriceFieldsFollowQuote ==
    Merged =>
        IF inputs.gathered.price_data.error
        THEN PriceFields(MergedDoc) = PriceFields(InputDoc)
        ELSE /\ PriceOverwritten
             /\ MergedDoc.priceHistory =
                   IF inputs.gathered.price_data.price_history # <<>>
                   THEN inputs.gathered.price_data.price_history
                   ELSE InputDoc.priceHistory

\* a merge with an error-free quote that has no history has returned, on a
\* document with metric rows: the rows are overwritten, the history is kept
C25_Witness ==
    /\ Merged
    /\ ~inputs.gathered.price_data.error
    /\ inputs.gathered.price_data.price_history = <<>>
    /\ MergedDoc.heroMetrics # InputDoc.heroMetrics
    /\ MergedDoc.priceHistory = <<"2026-02-27 11.0">>

\* two tiers are the same case-insensitively
SameTier(a, b) ==
    \/ a = b
    \/ {a, b} \in {{"T1", "t1"}, {"T2", "t2"}, {"T3", "t3"}}

\* the entries of the synthesis update for the tier of a hypothesis, in order
EntriesFor(tier) ==
    SelectSeq(inputs.hypothesis_update.hypotheses, LAMBDA e : SameTier(e.tier, tier))

Omitted(x) == x \in {Absent, ""}

\* C27: for a hypothesis matched by an update entry, score and score
\* display, description, and the direction arrow and label (and the score)
\* of the verdict are changed only if the entry supplies updated_score,
\* updated_description and direction respectively: a field the entry omits
\* or leaves empty leaves the value of the document unchanged.
C27_OnlySuppliedFieldsChange ==
    (Merged /\ Len(inputs.hypothesis_update.hypotheses) = 1) =>
        LET e == inputs.hypothesis_update.hypotheses[1] IN
        /\ \A i \in DOMAIN InputDoc.hypotheses :
              LET h == InputDoc.hypotheses[i]
                  m == MergedDoc.hypotheses[i]
              IN /\ Omitted(e.updated_score)
                       => m.score = h.score /\ m.scoreWidth = h.scoreWidth
                 /\ Omitted(e.updated_description) => m.description = h.description
        /\ \A k \in DOMAIN InputDoc.verdict.scores :
              LET v == InputDoc.verdict.scores[k]
                  w == MergedDoc.verdict.scores[k]
              IN /\ Omitted(e.updated_score) => w.score = v.score
                 /\ Omitted(e.direction)
                       => w.dirArrow = v.dirArrow /\ w.dirText = v.dirText

\* the update entries that carry a true materiality flag and the number n
Flagged(n) ==
    SelectSeq(inputs.evidence_update.cards,
              LAMBDA u : u.material_change /\ u.number = n)

\* C28: merge modifies an evidence card only if an update entry with the
\* card's number carries a true materiality flag, and then replaces only
\* its finding and its tension, each by the text the entry supplies; the
\* other fields of the card, every other card, and the number and order of
\* the cards are unchanged; an entry whose number matches no card, or
\* without the flag, changes nothing.
C28_CardsByNumber ==
    Merged =>
        /\ Len(MergedDoc.cards) = Len(InputDoc.cards)
        /\ \A i \in DOMAIN InputDoc.cards :
              LET c == InputDoc.cards[i]
                  m == MergedDoc.cards[i]
                  us == Flagged(c.number)
              IN /\ m.number = c.number /\ m.title = c.title
                 /\ us = <<>> => m = c
                 /\ Len(us) = 1 =>
                       /\ m.finding = IF Omitted(us[1].updated_finding)
                                      THEN c.finding ELSE us[1].updated_finding
                       /\ m.tension = IF Omitted(us[1].updated_tension)
                                      THEN c.tension ELSE us[1].updated_tension

\* a merge has returned where the one flagged entry of card 1 supplied a
\* finding and no tension: the finding of card 1 is replaced, its tension
\* and card 2 are as they were
C28_Witness ==
    /\ Merged
    /\ InputDoc = DocFull
    /\ Len(inputs.evidence_update.cards) = 1
    /\ Len(Flagged(1)) = 1
    /\ MergedDoc.cards[1].finding = "f-new"
    /\ MergedDoc.cards[1].tension = "x1"
    /\ MergedDoc.cards[2] = InputDoc.cards[2]

\* the parts of the text q, as a set
Parts(q) == {q[i] : i \in DOMAIN q}

\* C29: when the synthesis payload supplies a full narrative rewrite, the
\* narrative text of the document is replaced by the marked rewrite (the
\* existing text no longer appears in it); when it supplies only a short
\* update, the narrative is the timestamp-marked update followed by the
\* whole existing text; when it supplies neither, the narrative is
\* unchanged.
C29_NarrativeRewriteOrPrepend ==
    (Merged /\ InputDoc.narrative.present) =>
        LET old == InputDoc.narrative.theNarrative
            new == MergedDoc.narrative.theNarrative
            rewrite == inputs.hypothesis_update.narrative_rewrite
            update == inputs.hypothesis_update.narrative_update
        IN IF ~Omitted(rewrite)
           THEN /\ new = <<"<strong>[Updated ", now, "]</strong> ", rewrite>>
                /\ Parts(old) \cap Parts(new) = {}
           ELSE IF ~Omitted(update)
           THEN /\ SubSeq(new, 1, 3) = <<"<strong>[Updated ", now, "]</strong> ">>
                /\ new[4] = update
                /\ SubSeq(new, Len(new) - Len(old) + 1, Len(new)) = old
                /\ Len(new) = Len(old) + 5
           ELSE new = old

\* a merge of a short update and no rewrite has returned: the narrative is
\* the marked update followed by the existing text
C29_Witness ==
    /\ Merged
    /\ InputDoc.narrative.present
    /\ Omitted(inputs.hypothesis_update.narrative_rewrite)
    /\ inputs.hypothesis_update.narrative_update = "update"
    /\ MergedDoc.narrative.theNarrative =
          <<"<strong>[Updated ", now, "]</strong> ", "update", "<br><br>", "n0">>

\* C30: a reader that reads the stored document of an entity while the
\* entity is refreshed (serve_data, the disk fallback of refresh_result)
\* gets the whole previous document or the whole new one, never an empty,
\* truncated or partially written text.
C30_ReadersSeeWholeDocuments ==
    served.by # "none" =>
        /\ served.state = "whole"
        /\ served.doc \in {InputDoc} \cup (IF Merged THEN {MergedDoc} ELSE {})

-----------------------------------------------------------------------------
(* Properties of the completion client in detail (CompletionSpec)           *)

\* every attempt made so far failed with a non-retryable error
OnlyOtherErrors ==
    /\ call.failures # <<>>
    /\ Len(call.failures) = call.made
    /\ \A i \in DOMAIN call.failures : call.failures[i] = "other_error"

\* C31: when the completion call keeps failing with a non-retryable error
\* (no rate limit or quota, no 5xx), gemini_completion makes at most two
\* attempts (one retry) and then raises that error.
C31_OtherErrorRetriedOnce ==
    OnlyOtherErrors =>
        /\ call.made <= 2
        /\ call.pc = "raised" => call.raised = "other_error"

\* C32: whatever the attempts fail with, gemini_completion makes at most
\* max_retries + 1 attempts, goes on until it returns or raises, and returns
\* a value only from an attempt that did not fail: once max_retries + 1
\* attempts have failed it raises.
C32_BoundedAttemptsThenRaise ==
    /\ call.made <= call.max_retries + 1
    /\ call.pc \in {"loop", "except"} => ENABLED CompletionNext
    /\ call.pc = "returned" => Len(call.failures) = call.made - 1
    /\ Len(call.failures) = call.max_retries + 1 =>
          /\ call.pc \in {"except", "loop", "raised"}
          /\ call.pc = "loop" => ENABLED LoopExhausted /\ ~ENABLED GenerateContent

\* a call with max_retries = 3 has failed four times, in four ways, the last
\* time with a rate limit, and has raised RuntimeError
C32_Witness ==
    /\ call.pc = "raised"
    /\ call.max_retries = 3
    /\ call.made = 4
    /\ call.failures = <<"server_error", "invalid_json", "other_error", "rate_limit">>
    /\ call.raised = "RuntimeError"

-----------------------------------------------------------------------------
(* Properties of the batch entries and errors (Spec)                        *)

\* C33: for every batch in batch_jobs and every ticker of the batch, the
\* per_ticker_status list a poller gets (BatchRefreshJob.to_dict) has an
\* entry at all times, and the entry is "queued" from the creation of the
\* batch until the ticker's own pipeline has started.
C33_EntriesAlwaysPresent ==
    \A b \in Batches : \A t \in batch_jobs[b].tickers :
        /\ entry_of(batch_jobs[b], t).status \in Statuses
        /\ ~TaskStarted(b, t) => entry_of(batch_jobs[b], t).status = "queued"

\* run_batch_refresh has put its own BatchRefreshJob in batch_jobs and has
\* has written the entry of one ticker but not yet that of another
C33_Witness ==
    \E b \in Batches : \E t \in batch_jobs[b].tickers :
        /\ bPc[b] = "init"
        /\ t \notin DOMAIN batch_jobs[b].per_ticker_status
        /\ \E u \in batch_jobs[b].tickers :
               u \in DOMAIN batch_jobs[b].per_ticker_status

\* the errors map of batch b agrees with the entry of ticker t: an error is
\* recorded iff the entry is failed, and it is the error of the entry
ErrorsAgree(b, t) ==
    LET bj == batch_jobs[b] IN
    /\ t \in DOMAIN bj.errors <=> entry_of(bj, t).status = "failed"
    /\ t \in DOMAIN bj.errors => bj.errors[t] = entry_of(bj, t).error

\* C34: in every reachable state of a batch, the errors map has an entry
\* for a ticker iff the ticker's per-ticker status is failed, and the entry
\* is the error string of the ticker's status snapshot.
C34_ErrorsIffFailed ==
    \A b \in Batches : \A t \in batch_jobs[b].tickers : ErrorsAgree(b, t)

\* C34, amended: the same, except while the task of the ticker is between
\* writing its failed snapshot and recording its error (two successive
\* statements of its except block).
C34_ErrorsIffFailedOnceRecorded ==
    \A b \in Batches : \A t \in batch_jobs[b].tickers :
        tPc[b][t] # "x_errors" => ErrorsAgree(b, t)

\* a batch in which one task has failed and recorded its error and another
\* has completed
C34_Witness ==
    \E b \in Batches : \E t, u \in batch_jobs[b].tickers :
        /\ tPc[b][t] = "done" /\ tPc[b][u] = "done"
        /\ entry_of(batch_jobs[b], t).status = "failed"
        /\ t \in DOMAIN batch_jobs[b].errors
        /\ batch_jobs[b].errors[t] = entry_of(batch_jobs[b], t).error
        /\ entry_of(batch_jobs[b], u).status = "completed"
        /\ u \notin DOMAIN batch_jobs[b].errors

-----------------------------------------------------------------------------
(* Further properties of stage 4 in detail (MergeSpec)                      *)

\* C35: if the update of the summary index fails after the document of the
\* entity has been saved, the failure is not propagated: the job goes on to
\* completed with the saved document as its result, and the saved document
\* is as it was written.
C35_IndexFailureNotPropagated ==
    index.failed =>
        /\ mPc \in {"completed", "done"}
        /\ Merged
        /\ disk = WholeFile(MergedDoc)

\* the index file is no JSON: its update has failed, the job is completed
\* with its result set, and the file of the entity holds the merged document
C35_Witness ==
    /\ index = [file |-> "corrupt", failed |-> TRUE]
    /\ mPc = "done"
    /\ Merged
    /\ disk = WholeFile(MergedDoc)
    /\ MergedDoc # InputDoc

-----------------------------------------------------------------------------
(* Further properties of the pipelines (Spec)                               *)

\* C38: if the job of an entity ends failed, the run has performed no write
\* to the document of the entity: the stored document is the one stored
\* before the refresh started.
C38_FailedRunWritesNothing ==
    /\ \A s \in Singles :
           (sPc[s] \notin {"none", "create"} /\ sJob[s].status = "failed")
               => SingleRef(s) \notin saved
    /\ \A b \in Batches : \A t \in Tickers :
           (TaskStarted(b, t) /\ tJob[b][t].status = "failed")
               => BatchRef(b, t) \notin saved

-----------------------------------------------------------------------------
(* Properties of stage 4 on degraded and absent payloads (MergeSpec,        *)
(* SectionsSpec)                                                            *)

\* both LLM stages have failed: stage 2 has returned the update of its
\* except block (no cards) and stage 3 the payload of its except block
BothStagesDegraded ==
    /\ inputs.evidence_update = NoCards
    /\ inputs.hypothesis_update =
          [EmptySynthesis EXCEPT !.narrative_update = "Synthesis unavailable"]

\* C37: if both LLM stages fail for an entity, the merge still returns and
\* the hypotheses, the evidence cards and the narrative text of the document
\* it returns are those of the document it was given; only price and
\* timestamp fields may differ.
C37_DegradedStagesKeepContent ==
    BothStagesDegraded =>
        /\ mPc # "failed"
        /\ Merged =>
              /\ MergedDoc.hypotheses = InputDoc.hypotheses
              /\ MergedDoc.cards = InputDoc.cards
              /\ MergedDoc.narrative = InputDoc.narrative

C36_ResultsOfCompletedOnly ==
    LET b == get_latest_batch_job
        r == batch_refresh_results
    IN b # 0 =>
        /\ batch_jobs[b].status \in {"queued", "in_progress"} => r.code = "202"
        /\ batch_jobs[b].status \in TerminalBatch =>
              /\ r.code = "200"
              /\ \A t \in batch_jobs[b].tickers :
                    /\ t \in DOMAIN r.results
                          <=> entry_of(batch_jobs[b], t).status = "completed"
                    /\ t \in DOMAIN r.results
                          => r.results[t] = <<"result", BatchRef(b, t)>>

\* the place of a status in the order of the stages
Rank(status) ==
    CASE status = "queued" -> 0
      [] status = "gathering_data" -> 1
      [] status = "specialist_analysis" -> 2
      [] status = "hypothesis_synthesis" -> 3
      [] status = "writing_results" -> 4
      [] OTHER -> 5

\* a per-ticker status stays, moves forward, or goes to failed from a
\* status that is not terminal
MovesForward(old, new) ==
    \/ old = new
    \/ /\ old \notin {"completed", "failed"}
       /\ new = "failed" \/ Rank(new) > Rank(old)

\* C39: within one batch the per-ticker status of every ticker only moves
\* forward along queued, gathering_data, specialist_analysis,
\* hypothesis_synthesis, writing_results, completed, or to failed from a
\* status that is not terminal; once completed or failed it does not change;
\* and when the batch is finalized it is the status of the RefreshJob the
\* job tracker holds for the ticker.
C39_EntriesMoveForward ==
    [][\A b \in Batches : \A t \in batch_jobs[b].tickers :
          /\ MovesForward(entry_of(batch_jobs[b], t).status,
                          entry_of(batch_jobs'[b], t).status)
          /\ (bPc[b] = "status" /\ bPc'[b] = "done") =>
                entry_of(batch_jobs'[b], t).status = JobOf(get_job(t)).status]_vars

====
